---- MODULE Spec2Model ----
(***************************************************************************)
(* State-machine model of src/Housing_Model_ABPandas.py: the per-tick      *)
(* housing-market engine (HousingModel.step and everything it calls).      *)
(*                                                                         *)
(* Monetary amounts are integers.  The model inputs (HousingModel.inputs)  *)
(* are a configuration under which the annuity formulas of the source are  *)
(* exact on integers: interest_per_tick = 100/(1*100) = 1 and a one-period *)
(* mortgage, so 1-(1+r)^-n = 1/2.  Where the source divides, the model     *)
(* divides with \div.  None is 0 for references to houses and households   *)
(* (ids start at 1), NoneT for a remaining term, "none" for a market kind. *)
(* Fields that the source only writes (rented_to, offer_date, deposit,     *)
(* date_of_acquire, quality, diversity, G) are left out.                   *)
(***************************************************************************)
EXTENDS Integers, Sequences, FiniteSets, TLC

---------------------------------------------------------------------------
(* Bounds of the model *)

\* number of plots of the space handed to HousingModel.__init__
NumPlots == 5
\* number of calls of step() that are explored
MaxTicks == 2
\* households that may enter by manage_population_dynamics over a run, beyond
\* the largest initial population
MaxEntrants == 1
\* the lower of the two values of inputs["initial_occupancy"] a run starts with
LowOccupancy == 50
\* houses that may be built by construct_houses over a run
MaxBuilt == 1
\* houses whose drawn end_of_life falls inside the explored ticks
MaxShortLived == 1

---------------------------------------------------------------------------
(* HousingModel.inputs: the configuration handed to HousingModel.__init__  *)
(* as its inputs argument (the keys of the default dictionary, with values *)
(* of a small market instead of the default ones)                          *)

interest_rate == 100
max_LTV == 75
ticks_per_year == 1
density == 80
owned_rent_percentage == 50
initial_occupancy == 75
investors == 50
upgrade_tenancy == 50
house_mean_lifetime == 3
locality == 4
affordability == 80
mortgage_duration == 1
capital_mortgage == 10
capital_rent == 50
wage_rise == 0
savings == 0
savings_rent == 100
max_homeless_period == 1
buyer_search_length == 5
house_construction_rate == 25
entry_rate == 50
exit_rate == 30
realtor_memory == 1
min_price_percent == 20
price_drop_rate == 50
rent_drop_rate == 50
savings_to_price_threshold == 2
eviction_threshold_mortgage == 1
eviction_threshold_rent == 1
min_rate_duration_M == 0
max_rate_duration_M == 1
min_rate_duration_BTL == 1
max_rate_duration_BTL == 1

\* the draws of np.random.normal for an income, of random.uniform for a
\* propensity (in percent) and of np.random.normal for an end_of_life
IncomeLevels == {40, 80}
PropensityLevels == {25, 75}
ShortLife == 1
LongLife == house_mean_lifetime * ticks_per_year

\* None for a remaining term (rate_duration, mortgage_duration)
NoneT == -1000

---------------------------------------------------------------------------
(* Pure helpers *)

Max2(a, b) == IF a >= b THEN a ELSE b
Min2(a, b) == IF a <= b THEN a ELSE b

RECURSIVE SumSeq(_)
SumSeq(s) == IF s = <<>> THEN 0 ELSE Head(s) + SumSeq(Tail(s))

RECURSIVE Pow(_, _)
Pow(b, e) == IF e = 0 THEN 1 ELSE b * Pow(b, e - 1)

\* list.index(x): the first position of x, 0 when x is not in the list
IndexOf(s, x) ==
    IF \E i \in 1..Len(s) : s[i] = x
    THEN CHOOSE i \in 1..Len(s) : s[i] = x /\ \A j \in 1..(i - 1) : s[j] # x
    ELSE 0

\* del s[i]
DelAt(s, i) == SubSeq(s, 1, i - 1) \o SubSeq(s, i + 1, Len(s))

\* list.remove(x): drops the first occurrence
RemoveFirst(s, x) == DelAt(s, IndexOf(s, x))

\* max(s) of a non-empty list
MaxSeq(s) == CHOOSE m \in {s[i] : i \in 1..Len(s)} : \A i \in 1..Len(s) : s[i] <= m

InSeq(s, x) == \E i \in 1..Len(s) : s[i] = x

\* interest_per_tick = interest_rate / (ticks_per_year * 100), as RNum / RDen
RNum == interest_rate
RDen == ticks_per_year * 100
\* number of repayment periods: mortgage_duration * ticks_per_year
NPeriods == mortgage_duration * ticks_per_year
\* (1 - (1 + r) ** (-n)) / r, as FNum / FDen
FNum == (Pow(RDen + RNum, NPeriods) - Pow(RDen, NPeriods)) * RDen
FDen == Pow(RDen + RNum, NPeriods) * RNum
\* the rate stored in household.rate: interest_per_tick
interest_per_tick == RNum \div RDen

\* (1 - (1 + r) ** (-n)) * (repayment / r)
MortgageFor(repayment) == (repayment * FNum) \div FDen
\* (mortgage * r) / (1 - (1 + r) ** (-n))
RepaymentFor(mortgage) == (mortgage * FDen) \div FNum

---------------------------------------------------------------------------
(* The agents: House.props, Household.props, Realtor.props as built by the  *)
(* constructors                                                            *)

NewHouse ==
    [ my_type       |-> "none",
      end_of_life   |-> 0,
      for_sale      |-> TRUE,
      for_rent      |-> FALSE,
      date_for_sale |-> 0,
      date_for_rent |-> 0,
      my_owner      |-> 0,
      sale_price    |-> 0,
      rent_price    |-> 0,
      offered_to    |-> 0,
      my_occupier   |-> 0,
      plot          |-> 0 ]

NewHousehold ==
    [ my_house          |-> 0,
      income            |-> 0,
      income_rent       |-> <<>>,
      income_surplus    |-> 0,
      mortgage          |-> <<>>,
      mortgage_initial  |-> <<>>,
      mortgage_duration |-> <<>>,
      rate              |-> <<>>,
      rate_duration     |-> <<>>,
      capital           |-> 0,
      repayment         |-> <<>>,
      my_rent           |-> 0,
      homeless          |-> 0,
      my_type           |-> "none",
      made_offer_on     |-> 0,
      my_ownership      |-> <<>>,
      on_market         |-> FALSE,
      on_market_type    |-> "none",
      propensity        |-> 0 ]

NewRealtor ==
    [ locality_houses |-> <<>>,
      records         |-> <<>>,
      mean_price      |-> 0,
      mean_rent       |-> 0 ]

\* the monitors that the core reads back (demolish_houses)
NewMonitors == [ medianPriceForSale |-> 0, medianPriceForRent |-> 0 ]

---------------------------------------------------------------------------
(* The state of the program *)

VARIABLES
    house,        \* id -> House.props, for every House object ever created
    hh,           \* id -> Household.props, for every Household object
    houses,       \* model.houses: the ids of the houses in the model, in order
    households,   \* model.households: the ids of the households, in order
    realtor,      \* the props of the realtor (n_realtors = 1)
    monitors,     \* model.monitors
    ticks,        \* model.ticks
    nhouse,       \* number of House objects created so far
    nhh,          \* number of Household objects created so far
    pc,           \* the next phase of step(), "crashed" after an exception
    err,          \* the exception that ended the run, "none" otherwise
    calls,        \* the log of the calls made by the last phase
    valued        \* ghost: the listings whose asking price or rent was set
                  \* by evaluate, as <<house, for_sale?, date of listing>>

vars == << house, hh, houses, households, realtor, monitors, ticks,
           nhouse, nhh, pc, err, calls, valued >>

\* The mutable world an operation works on.  An operation that raises leaves
\* the world as it was when the exception was raised and sets err; every
\* later statement is skipped.
World ==
    [ house |-> house, hh |-> hh, houses |-> houses, households |-> households,
      realtor |-> realtor, monitors |-> monitors, ticks |-> ticks,
      nhouse |-> nhouse, nhh |-> nhh, err |-> "none", calls |-> <<>>,
      valued |-> valued ]

Raise(w, e) == IF w.err = "none" THEN [w EXCEPT !.err = e] ELSE w

Snap(w) == [ house |-> w.house, hh |-> w.hh ]

\* one entry of the log of calls: the operation, its arguments, the world
\* before and after it, its result and whether it raised
Call(op, who, first, w0, w1, result) ==
    [ op |-> op, who |-> who, first |-> first, pre |-> Snap(w0),
      post |-> Snap(w1), now |-> w0.ticks, result |-> result,
      raised |-> (w1.err # "none"), valued |-> w0.valued ]

Logged(w0, w1, op, who) ==
    [w1 EXCEPT !.calls = Append(w1.calls, Call(op, who, 0, w0, w1, "None"))]

---------------------------------------------------------------------------
(* Operations called by the phases of step()                               *)

\* put_on_market with a fault: a house of type rent that was for sale stays
\* for sale when it is listed for rent
put_on_market_keeping_sale(w, h) ==
    IF w.err # "none" THEN w
    ELSE IF w.house[h].my_type = "mortgage"
    THEN [w EXCEPT !.house[h].for_sale = TRUE,
                   !.house[h].for_rent = FALSE,
                   !.house[h].offered_to = 0,
                   !.house[h].date_for_sale = w.ticks]
    ELSE IF w.house[h].my_type = "rent"
    THEN [w EXCEPT !.house[h].for_rent = TRUE,
                   !.house[h].offered_to = 0,
                   !.house[h].date_for_rent = w.ticks]
    ELSE w

put_on_market(w, h) ==
    IF w.err # "none" THEN w
    ELSE IF w.house[h].my_type = "mortgage"
    THEN [w EXCEPT !.house[h].for_sale = TRUE,
                   !.house[h].for_rent = FALSE,
                   !.house[h].offered_to = 0,
                   !.house[h].date_for_sale = w.ticks]
    ELSE IF w.house[h].my_type = "rent"
    THEN [w EXCEPT !.house[h].for_sale = FALSE,
                   !.house[h].for_rent = TRUE,
                   !.house[h].offered_to = 0,
                   !.house[h].date_for_rent = w.ticks]
    ELSE w

remove_from_market(w, h) ==
    IF w.err # "none" THEN w
    ELSE LET o == w.house[h].offered_to
             w1 == IF o # 0 THEN [w EXCEPT !.hh[o].made_offer_on = 0] ELSE w
         IN [w1 EXCEPT !.house[h].for_sale = FALSE,
                       !.house[h].for_rent = FALSE,
                       !.house[h].offered_to = 0]

enter_market(w, household, market) ==
    IF w.err # "none" THEN w
    ELSE [w EXCEPT !.hh[household].on_market = TRUE,
                   !.hh[household].on_market_type = market]

\* leave_market takes (household, market); both of its callers pass the
\* household alone, which raises TypeError before the body runs.
leave_market(w, household, market) ==
    IF w.err # "none" THEN w
    ELSE [w EXCEPT !.hh[household].on_market = FALSE,
                   !.hh[household].on_market_type = "none"]

\* lines 1112-1120: the end of the mortgage branch of evict
evict_clear_owner(w, agent) ==
    IF w.err # "none" THEN w
    ELSE [w EXCEPT !.hh[agent].my_house = 0,
                   !.hh[agent].my_ownership = <<>>,
                   !.hh[agent].mortgage = <<>>,
                   !.hh[agent].repayment = <<>>,
                   !.hh[agent].income_rent = <<>>,
                   !.hh[agent].my_rent = 0,
                   !.hh[agent].homeless = 0]

\* the rent branch of evict with a fault: the landlord keeps the rent income
\* of the vacated house
evict_tenant_keeping_rent(w, agent) ==
    IF w.err # "none" THEN w
    ELSE LET h == w.hh[agent].my_house IN
    IF h = 0 THEN Raise(w, "AttributeError")
    ELSE LET w1 == put_on_market([w EXCEPT !.house[h].my_occupier = 0,
                                           !.house[h].offered_to = 0], h)
         IN [w1 EXCEPT !.hh[agent].my_house = 0,
                       !.hh[agent].my_rent = 0,
                       !.hh[agent].homeless = 0]

\* lines 1123-1139: the rent branch of evict
evict_tenant(w, agent) ==
    IF w.err # "none" THEN w
    ELSE LET h == w.hh[agent].my_house IN
    IF h = 0 THEN Raise(w, "AttributeError")
    ELSE LET w1 == put_on_market([w EXCEPT !.house[h].my_occupier = 0,
                                           !.house[h].offered_to = 0], h)
             landlord == w1.house[h].my_owner
             house_i == IndexOf(w1.hh[landlord].my_ownership, h)
             w2 == IF landlord = 0 THEN w1
                   ELSE IF house_i = 0 THEN Raise(w1, "ValueError")
                   ELSE IF house_i > Len(w1.hh[landlord].income_rent)
                   THEN Raise(w1, "IndexError")
                   ELSE [w1 EXCEPT !.hh[landlord].income_rent[house_i] = 0]
         IN IF w2.err # "none" THEN w2
            ELSE [w2 EXCEPT !.hh[agent].my_house = 0,
                            !.hh[agent].my_rent = 0,
                            !.hh[agent].homeless = 0]

\* the release of an owned house with a fault: the house keeps its owner
evict_release_keeping_owner(w, h) ==
    IF w.err # "none" THEN w
    ELSE put_on_market([w EXCEPT !.house[h].my_occupier = 0,
                                 !.house[h].offered_to = 0], h)

\* lines 1097-1103 and 1105-1111: an owned house other than my_house is
\* stripped of its owner and occupier and listed
evict_release(w, h) ==
    IF w.err # "none" THEN w
    ELSE put_on_market([w EXCEPT !.house[h].my_occupier = 0,
                                 !.house[h].my_owner = 0,
                                 !.house[h].offered_to = 0], h)

RECURSIVE evict(_, _)
RECURSIVE evict_portfolio(_, _, _, _)

\* lines 1088-1111: for house in agent.props["my_ownership"], from position i
evict_portfolio(w, agent, my_house, i) ==
    IF w.err # "none" \/ i > Len(w.hh[agent].my_ownership) THEN w
    ELSE LET h == w.hh[agent].my_ownership[i] IN
    IF h = my_house THEN evict_portfolio(w, agent, my_house, i + 1)
    ELSE LET occupier == w.house[h].my_occupier
             w1 == IF w.house[h].my_type = "rent"
                   THEN LET wa == IF occupier # 0
                                  THEN enter_market(evict(w, occupier), occupier, "rent")
                                  ELSE w
                            wb == IF wa.err # "none" THEN wa
                                  ELSE [wa EXCEPT !.house[h].my_type = "mortgage"]
                        IN evict_release(wb, h)
                   ELSE w
             w2 == IF w1.err = "none" /\ w1.house[h].my_type = "mortgage"
                   THEN evict_release(w1, h)
                   ELSE w1
         IN evict_portfolio(w2, agent, my_house, i + 1)

\* lines 1080-1120: the mortgage branch of evict
evict_owner(w, agent) ==
    IF w.err # "none" THEN w
    ELSE LET my_house == w.hh[agent].my_house IN
    IF my_house = 0 THEN Raise(w, "AttributeError")
    ELSE LET w1 == put_on_market([w EXCEPT !.house[my_house].my_occupier = 0,
                                           !.house[my_house].my_owner = 0], my_house)
         IN evict_clear_owner(evict_portfolio(w1, agent, my_house, 1), agent)

evict(w, agent) ==
    IF w.err # "none" THEN w
    ELSE IF agent = 0 THEN Raise(w, "AttributeError")
    ELSE IF w.hh[agent].my_type = "mortgage"
    THEN Logged(w, evict_owner(w, agent), "evict", agent)
    ELSE IF w.hh[agent].my_type = "rent"
    THEN Logged(w, evict_tenant(w, agent), "evict", agent)
    ELSE w

\* line 1209-1211: the owned houses other than my_house that are of type rent
\* and have no occupier
my_ownership_not_rented(w, household) ==
    SelectSeq(w.hh[household].my_ownership,
              LAMBDA h : /\ h # w.hh[household].my_house
                         /\ w.house[h].my_type = "rent"
                         /\ w.house[h].my_occupier = 0)

\* lines 1214-1216: h_to_sell is the draw of random.choice
force_sell_vacant(w, h_to_sell) ==
    put_on_market([w EXCEPT !.house[h_to_sell].my_type = "mortgage"], h_to_sell)

\* line 1220-1222: the surplus of every owned house, that of my_house set to 0
force_sell_surplus(w, household) ==
    LET own == w.hh[household].my_ownership
        raw == [i \in 1..Len(own) |->
                   w.house[own[i]].sale_price - w.hh[household].mortgage[i]]
    IN [raw EXCEPT ![IndexOf(own, w.hh[household].my_house)] = 0]

\* lines 1218-1232: every other house is rented
force_sell_rented(w, household) ==
    LET own == w.hh[household].my_ownership IN
    IF Len(w.hh[household].mortgage) < Len(own) THEN Raise(w, "IndexError")
    ELSE IF IndexOf(own, w.hh[household].my_house) = 0 THEN Raise(w, "ValueError")
    ELSE LET surplus == force_sell_surplus(w, household)
             i_to_sell == IndexOf(surplus, MaxSeq(surplus))
             h_to_sell == own[i_to_sell]
             occupier == w.house[h_to_sell].my_occupier
             w1 == enter_market(evict(w, occupier), occupier, "rent")
         IN IF w1.err # "none" THEN w1
            ELSE put_on_market([w1 EXCEPT !.house[h_to_sell].my_type = "mortgage"],
                               h_to_sell)

\* force_sell: the set of outcomes, one for every draw of random.choice
force_sell(w, household) ==
    IF w.err # "none" THEN {w}
    ELSE LET vacant == my_ownership_not_rented(w, household) IN
         IF Len(vacant) > 0
         THEN { Logged(w, force_sell_vacant(w, vacant[k]), "force_sell", household)
                  : k \in 1..Len(vacant) }
         ELSE { Logged(w, force_sell_rented(w, household), "force_sell", household) }

---------------------------------------------------------------------------
(* initialise(): the state after construction                              *)

\* initialise_houses, lines 244-248
num_houses == (density * NumPlots) \div 100
num_houses_m == (owned_rent_percentage * num_houses) \div 100
num_houses_r == num_houses - num_houses_m
\* initialise_households, lines 306-308
OccupancyLevels == {LowOccupancy, initial_occupancy}
n_mortgage(occupancy) == (num_houses * owned_rent_percentage * occupancy) \div 10000
n_rent(occupancy) == ((num_houses - n_mortgage(occupancy)) * occupancy) \div 100
\* the largest initial population
MaxHouseholds0 ==
    CHOOSE n \in { n_mortgage(o) + n_rent(o) : o \in OccupancyLevels } :
        \A o \in OccupancyLevels : n_mortgage(o) + n_rent(o) <= n

HouseIds == 1..(num_houses + MaxBuilt)
HhIds == 1..(MaxHouseholds0 + MaxEntrants)
MortgageHouses0 == 1..num_houses_m
RentHouses0 == (num_houses_m + 1)..num_houses
MortgageHhs0(occupancy) == 1..n_mortgage(occupancy)
RentHhs0(occupancy) ==
    (n_mortgage(occupancy) + 1)..(n_mortgage(occupancy) + n_rent(occupancy))

\* distance(a, b) of the spatial collaborator, on a strip of plots
distance(w, a, b) ==
    IF w.house[a].plot >= w.house[b].plot
    THEN w.house[a].plot - w.house[b].plot
    ELSE w.house[b].plot - w.house[a].plot

\* statistics.median of a non-empty list of numbers
RECURSIVE sorted(_)
sorted(s) ==
    IF s = <<>> THEN <<>>
    ELSE LET m == CHOOSE i \in 1..Len(s) : \A j \in 1..Len(s) : s[i] <= s[j]
         IN <<s[m]>> \o sorted(DelAt(s, m))

\* twice the median, which is an integer
median2(s) ==
    LET t == sorted(s)
        n == Len(s)
    IN IF n % 2 = 1 THEN 2 * t[(n + 1) \div 2]
       ELSE t[n \div 2] + t[n \div 2 + 1]

median(s) == median2(s) \div 2

\* statistics.mean of a non-empty list of numbers
mean(s) == SumSeq(s) \div Len(s)

\* record_price: one record appended to the records of the local realtor
record_price(w, h, kind) ==
    IF w.err # "none" THEN w
    ELSE [w EXCEPT !.realtor.records = Append(@,
            [ house |-> h, date |-> w.ticks,
              sale_price |-> IF kind = "rent" THEN 0 ELSE w.house[h].sale_price,
              rent_price |-> IF kind = "sale" THEN 0 ELSE w.house[h].rent_price,
              transaction |-> kind ])]

\* update_income, lines 1061-1066
update_income(w, a, setup) ==
    LET x == w.hh[a]
        w1 == [w EXCEPT !.hh[a].income_surplus =
                   (x.income \div ticks_per_year) + SumSeq(x.income_rent)
                   - SumSeq(x.repayment) - x.my_rent]
    IN IF setup THEN w1
       ELSE [w1 EXCEPT !.hh[a].income = (x.income * (100 + wage_rise)) \div 100]

\* lines 265-279 and 289-303: house number h, of the given type
init_house(w, h, type, life) ==
    [w EXCEPT !.house[h] = [NewHouse EXCEPT !.my_type = type,
                                            !.end_of_life = life,
                                            !.plot = h],
              !.houses = Append(@, h),
              !.nhouse = h,
              !.realtor.locality_houses = Append(@, h)]

\* lines 320-363: mortgage household a moves into the mortgage house h
init_mortgage_household(w, a, h, income, propensity, rate_duration) ==
    LET capital == (income * capital_mortgage) \div 100
        max_repayment == (income * affordability) \div (ticks_per_year * 100)
        max_mortgage == Min2(MortgageFor(max_repayment),
                             (capital * max_LTV) \div (100 - max_LTV))
        w1 == [w EXCEPT
                 !.hh[a] = [NewHousehold EXCEPT
                     !.my_type = "mortgage",
                     !.income = income,
                     !.income_surplus = income \div ticks_per_year,
                     !.capital = capital,
                     !.income_rent = <<0>>,
                     !.rate = <<interest_per_tick>>,
                     !.rate_duration = <<rate_duration>>,
                     !.mortgage_duration = <<mortgage_duration * ticks_per_year>>,
                     !.mortgage = <<max_mortgage>>,
                     !.mortgage_initial = <<max_mortgage>>,
                     !.repayment = <<RepaymentFor(max_mortgage)>>,
                     !.propensity = propensity,
                     !.my_ownership = <<h>>,
                     !.my_house = h],
                 !.households = Append(@, a),
                 !.nhh = a,
                 !.house[h].my_owner = a,
                 !.house[h].my_occupier = a,
                 !.house[h].for_sale = FALSE,
                 !.house[h].for_rent = FALSE,
                 !.house[h].sale_price = max_mortgage]
    IN record_price(w1, h, "sale")

\* lines 375-416: rent household a moves into the rent house h owned by owner
init_rent_household(w, a, h, income, propensity, owner) ==
    LET my_rent == (income * affordability) \div (ticks_per_year * 100)
        sale_price == MortgageFor(my_rent)
        w1 == [w EXCEPT
                 !.hh[a] = [NewHousehold EXCEPT
                     !.my_type = "rent",
                     !.my_house = h,
                     !.income = income,
                     !.income_surplus = income \div ticks_per_year,
                     !.capital = (income * capital_rent) \div 100,
                     !.my_rent = my_rent,
                     !.propensity = propensity],
                 !.house[h].my_owner = owner,
                 !.house[h].my_occupier = a,
                 !.house[h].for_sale = FALSE,
                 !.house[h].sale_price = sale_price,
                 !.house[h].rent_price = my_rent]
        w2 == record_price(w1, h, "rent")
    IN [w2 EXCEPT
          !.hh[owner].my_ownership = Append(@, h),
          !.hh[owner].mortgage = Append(@, sale_price),
          !.hh[owner].mortgage_initial = Append(@, sale_price),
          !.hh[owner].repayment = Append(@, my_rent),
          !.hh[owner].income_rent = Append(@, my_rent),
          !.hh[owner].rate = Append(@, interest_per_tick),
          !.hh[owner].rate_duration = Append(@, max_rate_duration_BTL * ticks_per_year),
          !.hh[owner].mortgage_duration = Append(@, mortgage_duration * ticks_per_year),
          !.households = Append(@, a),
          !.nhh = a]

\* lines 423-441: the rent house h that nobody occupies is given to owner
init_vacant_rent_house(w, h, owner, rents) ==
    [w EXCEPT
        !.hh[owner].my_ownership = Append(@, h),
        !.hh[owner].mortgage = Append(@, w.hh[owner].mortgage[1]),
        !.hh[owner].mortgage_initial = Append(@, w.hh[owner].mortgage_initial[1]),
        !.hh[owner].repayment = Append(@, w.hh[owner].repayment[1]),
        !.hh[owner].income_rent = Append(@, 0),
        !.hh[owner].rate = Append(@, interest_per_tick),
        !.hh[owner].rate_duration = Append(@, max_rate_duration_BTL * ticks_per_year),
        !.hh[owner].mortgage_duration = Append(@, mortgage_duration * ticks_per_year),
        !.house[h].my_owner = owner,
        !.house[h].my_occupier = 0,
        !.house[h].sale_price = w.house[w.hh[owner].my_house].sale_price,
        !.house[h].rent_price = median(rents)]

EmptyWorld ==
    [ house |-> [h \in HouseIds |-> NewHouse],
      hh |-> [a \in HhIds |-> NewHousehold],
      houses |-> <<>>, households |-> <<>>,
      realtor |-> NewRealtor, monitors |-> NewMonitors, ticks |-> 0,
      nhouse |-> 0, nhh |-> 0, err |-> "none", calls |-> <<>>, valued |-> {} ]

\* The draws of initialise: an income and a propensity for every household,
\* the fixed-rate term of every mortgage household, the owner of every rent
\* house, and the houses whose end_of_life is short.  A household takes the
\* first unoccupied house of its kind and house h stands on plot h.
InitDraws ==
    UNION {
      [ occupancy : {o},
        income : [MortgageHhs0(o) \cup RentHhs0(o) -> IncomeLevels],
        propensity : [MortgageHhs0(o) \cup RentHhs0(o) -> PropensityLevels],
        rate_duration : [MortgageHhs0(o) -> min_rate_duration_M..max_rate_duration_M],
        owner : [RentHouses0 -> MortgageHhs0(o)],
        short : {S \in SUBSET (1..num_houses) : Cardinality(S) <= MaxShortLived} ]
      : o \in OccupancyLevels }

RECURSIVE init_houses(_, _, _)
init_houses(w, h, c) ==
    IF h > num_houses THEN w
    ELSE init_houses(
           init_house(w, h, IF h <= num_houses_m THEN "mortgage" ELSE "rent",
                      IF h \in c.short THEN ShortLife ELSE LongLife),
           h + 1, c)

RECURSIVE init_mortgage_households(_, _, _)
init_mortgage_households(w, a, c) ==
    IF a > n_mortgage(c.occupancy) THEN w
    ELSE init_mortgage_households(
           init_mortgage_household(w, a, a, c.income[a], c.propensity[a],
                                   c.rate_duration[a]),
           a + 1, c)

RECURSIVE init_rent_households(_, _, _)
init_rent_households(w, a, c) ==
    IF a > n_mortgage(c.occupancy) + n_rent(c.occupancy) THEN w
    ELSE LET h == num_houses_m + (a - n_mortgage(c.occupancy))
         IN init_rent_households(
              init_rent_household(w, a, h, c.income[a], c.propensity[a], c.owner[h]),
              a + 1, c)

RECURSIVE init_vacant_rent_houses(_, _, _, _)
init_vacant_rent_houses(w, h, c, rents) ==
    IF h > num_houses THEN w
    ELSE init_vacant_rent_houses(
           IF w.house[h].my_occupier = 0
           THEN init_vacant_rent_house(w, h, c.owner[h], rents) ELSE w,
           h + 1, c, rents)

\* [x.props[field] for x in seq], for a sequence of houses of the world w
props_of(w, s, field) == [i \in 1..Len(s) |-> w.house[s[i]][field]]

\* [r[field] for r in records]
column(s, field) == [i \in 1..Len(s) |-> s[i][field]]

RECURSIVE update_surplus_income(_, _)
update_surplus_income(w, i) ==
    IF i > Len(w.households) THEN w
    ELSE update_surplus_income(update_income(w, w.households[i], TRUE), i + 1)

initialise(c) ==
    LET w1 == init_houses(EmptyWorld, 1, c)
        w2 == init_mortgage_households(w1, 1, c)
        w3 == init_rent_households(w2, n_mortgage(c.occupancy) + 1, c)
        rent_houses == SelectSeq(w3.houses, LAMBDA h : w3.house[h].my_type = "rent")
        rents == props_of(w3, SelectSeq(rent_houses,
                                  LAMBDA h : w3.house[h].rent_price > 0),
                          "rent_price")
        w4 == init_vacant_rent_houses(w3, num_houses_m + 1, c, rents)
    IN update_surplus_income(w4, 1)

\* the state of the model is the world w, at the phase p
Becomes(w, p) ==
    /\ house' = w.house
    /\ hh' = w.hh
    /\ houses' = w.houses
    /\ households' = w.households
    /\ realtor' = w.realtor
    /\ monitors' = w.monitors
    /\ ticks' = w.ticks
    /\ nhouse' = w.nhouse
    /\ nhh' = w.nhh
    /\ err' = w.err
    /\ calls' = w.calls
    /\ valued' = w.valued
    /\ pc' = IF w.err # "none" THEN "crashed" ELSE p

Init ==
    \E c \in InitDraws :
        LET w == initialise(c) IN
        /\ house = w.house
        /\ hh = w.hh
        /\ houses = w.houses
        /\ households = w.households
        /\ realtor = w.realtor
        /\ monitors = w.monitors
        /\ ticks = w.ticks
        /\ nhouse = w.nhouse
        /\ nhh = w.nhh
        /\ valued = w.valued
        /\ err = "none"
        /\ calls = <<>>
        /\ pc = "update_globals"

---------------------------------------------------------------------------
(* The phases of step(), lines 458-481                                     *)

\* update_globals, lines 484-494
update_globals(w) ==
    LET lh == w.realtor.locality_houses
        prices_locality == props_of(w, SelectSeq(lh,
                                       LAMBDA h : w.house[h].sale_price > 0),
                                    "sale_price")
        rents_locality == props_of(w, SelectSeq(lh,
                                      LAMBDA h : w.house[h].rent_price > 0),
                                   "rent_price")
    IN [w EXCEPT
          !.ticks = @ + 1,
          !.realtor.mean_price =
              IF Len(prices_locality) > 0 THEN mean(prices_locality) ELSE @,
          !.realtor.mean_rent =
              IF Len(rents_locality) > 0 THEN mean(rents_locality) ELSE @]

UpdateGlobals ==
    /\ pc = "update_globals"
    /\ ticks < MaxTicks
    /\ Becomes(update_globals(World), "manage_population_dynamics")

\* remove_agent(household) of the bookkeeping collaborator
remove_household(w, a) ==
    IF w.err # "none" THEN w
    ELSE [w EXCEPT !.households = SelectSeq(@, LAMBDA x : x # a)]

\* random.sample(s, k): the lists of k distinct members of s
RECURSIVE Samples(_, _)
Samples(s, k) ==
    IF k = 0 THEN {<<>>}
    ELSE UNION { { <<s[i]>> \o t : t \in Samples(DelAt(s, i), k - 1) }
                 : i \in 1..Len(s) }

\* lines 505-511: for hh in exiting_hhs
RECURSIVE population_exit(_, _)
population_exit(w, exiting) ==
    IF w.err # "none" \/ exiting = <<>> THEN w
    ELSE LET a == Head(exiting)
             w1 == IF w.hh[a].my_house # 0 THEN evict(w, a) ELSE w
         IN population_exit(remove_household(w1, a), Tail(exiting))

\* lines 524-533: one entering household, with its draws
population_enter(w, d) ==
    IF w.err # "none" THEN w
    ELSE LET a == w.nhh + 1
             capital_pct == IF d.my_type = "rent" THEN capital_rent ELSE capital_mortgage
         IN [w EXCEPT
               !.hh[a] = [NewHousehold EXCEPT
                   !.my_type = d.my_type,
                   !.on_market = TRUE,
                   !.on_market_type = d.my_type,
                   !.income = d.income,
                   !.income_surplus = d.income \div ticks_per_year,
                   !.capital = (d.income * capital_pct) \div 100,
                   !.propensity = d.propensity],
               !.households = Append(@, a),
               !.nhh = a]

EntrantDraws ==
    [ my_type : {"rent", "mortgage"}, income : IncomeLevels,
      propensity : PropensityLevels ]

\* lines 516-533, for the n households that enter
RECURSIVE population_entry(_, _)
population_entry(W, n) ==
    IF n = 0 THEN W
    ELSE population_entry(
           UNION { { population_enter(w, d) : d \in EntrantDraws } : w \in W }, n - 1)

\* the loop over the homeless households with a fault: the counter is
\* compared with max_homeless_period before it is increased
RECURSIVE population_homeless_testing_first(_, _)
population_homeless_testing_first(w, homeless_hhs) ==
    IF w.err # "none" \/ homeless_hhs = <<>> THEN w
    ELSE LET a == Head(homeless_hhs)
             w1 == [w EXCEPT !.hh[a].homeless = @ + 1]
             w2 == IF w.hh[a].homeless > max_homeless_period
                   THEN remove_household(w1, a) ELSE w1
         IN population_homeless_testing_first(w2, Tail(homeless_hhs))

\* lines 536-547: for hh in homeless_hhs, from position i of the list
RECURSIVE population_homeless(_, _)
population_homeless(w, homeless_hhs) ==
    IF w.err # "none" \/ homeless_hhs = <<>> THEN w
    ELSE LET a == Head(homeless_hhs)
             w1 == [w EXCEPT !.hh[a].homeless = @ + 1]
             w2 == IF w1.hh[a].homeless > max_homeless_period
                   THEN remove_household(w1, a) ELSE w1
         IN population_homeless(w2, Tail(homeless_hhs))

\* manage_population_dynamics: the set of outcomes, one for every draw
manage_population_dynamics(w) ==
    LET n_exit == (Len(w.households) * exit_rate) \div 100
        occupying_hhs == SelectSeq(w.households, LAMBDA a : w.hh[a].my_house # 0)
        after_exit == { population_exit(w, e)
                          : e \in Samples(occupying_hhs, Min2(n_exit, Len(occupying_hhs))) }
        after_entry ==
            UNION { population_entry({w1},
                        Min2((Len(w1.households) * entry_rate) \div 100,
                             (MaxHouseholds0 + MaxEntrants) - w1.nhh))
                      : w1 \in after_exit }
    IN { population_homeless(w2,
             SelectSeq(w2.households, LAMBDA a : w2.hh[a].my_house = 0))
           : w2 \in after_entry }

ManagePopulationDynamics ==
    /\ pc = "manage_population_dynamics"
    /\ \E w \in manage_population_dynamics(World) :
           Becomes(w, "manage_market_participation")

\* line 552-557: the test of poor_mortgage
is_poor_mortgage(w, a) ==
    LET x == w.hh[a] IN
    /\ x.on_market = FALSE
    /\ x.my_type = "mortgage"
    /\ SumSeq(x.repayment) * ticks_per_year * 100 >
         eviction_threshold_mortgage
           * (x.income + SumSeq(x.income_rent) * ticks_per_year) * affordability

\* lines 561-566: the test of poor_rent
is_poor_rent(w, a) ==
    LET x == w.hh[a] IN
    /\ x.on_market = FALSE
    /\ x.my_type = "rent"
    /\ x.my_rent * ticks_per_year * 100 >
         eviction_threshold_rent * x.income * affordability

\* lines 580-584: the test of poor_mortgage_stay
is_poor_mortgage_stay(w, a) ==
    LET own == w.hh[a].my_ownership IN
    /\ Len(own) > 1
    /\ \A i \in 1..Len(own) :
          ~(w.house[own[i]].for_sale \/ w.house[own[i]].for_rent)

\* lines 590-596: the test of rich_mortgage; median() of an empty list raises
rich_mortgage_raises(w, a) ==
    LET x == w.hh[a] IN
    x.my_type = "mortgage" /\ x.on_market = FALSE /\ x.mortgage = <<>>

is_rich_mortgage(w, a) ==
    LET x == w.hh[a] IN
    /\ x.my_type = "mortgage"
    /\ x.on_market = FALSE
    /\ x.capital * 200 > median2(x.mortgage) * (100 - max_LTV)
    /\ ((x.income + SumSeq(x.income_rent) * ticks_per_year)
          - SumSeq(x.repayment) * ticks_per_year) * affordability * 2
         > median2(x.repayment) * ticks_per_year * 100

\* lines 598-604: the test of rich_rent; my_house None raises
rich_rent_raises(w, a) ==
    LET x == w.hh[a] IN
    x.my_type = "rent" /\ x.on_market = FALSE /\ x.my_house = 0

is_rich_rent(w, a) ==
    LET x == w.hh[a]
        sale_price == w.house[x.my_house].sale_price
    IN
    /\ x.my_type = "rent"
    /\ x.on_market = FALSE
    /\ x.capital * 100 > savings_to_price_threshold * sale_price * (100 - max_LTV)
    /\ x.income * affordability * FNum > sale_price * max_LTV * FDen

\* lines 573-575: for hh in poor_evict
RECURSIVE evict_poor(_, _)
evict_poor(w, poor_evict) ==
    IF w.err # "none" \/ poor_evict = <<>> THEN w
    ELSE evict_poor(enter_market(evict(w, Head(poor_evict)), Head(poor_evict), "rent"),
                    Tail(poor_evict))

\* lines 586-587: for hh in poor_mortgage_stay, over the set W of outcomes
RECURSIVE force_sell_poor(_, _)
force_sell_poor(W, poor_mortgage_stay) ==
    IF poor_mortgage_stay = <<>> THEN W
    ELSE force_sell_poor(UNION { force_sell(w, Head(poor_mortgage_stay)) : w \in W },
                         Tail(poor_mortgage_stay))

\* admit_rich with a fault: the poor owners are not taken out of rich_mortgage
admit_rich_keeping_poor(w, occupying_hhs, poor_mortgage, poor_rent) ==
    IF w.err # "none" THEN w
    ELSE IF \E i \in 1..Len(occupying_hhs) : rich_mortgage_raises(w, occupying_hhs[i])
    THEN Raise(w, "StatisticsError")
    ELSE IF \E i \in 1..Len(occupying_hhs) : rich_rent_raises(w, occupying_hhs[i])
    THEN Raise(w, "AttributeError")
    ELSE LET occ == {occupying_hhs[i] : i \in 1..Len(occupying_hhs)}
             rich_mortgage == {a \in occ : is_rich_mortgage(w, a)}
             rich_rent == {a \in occ : is_rich_rent(w, a)}
                                \ {poor_rent[i] : i \in 1..Len(poor_rent)}
             market(a) ==
                 IF a \in rich_mortgage /\ w.hh[a].propensity >= 100 - investors
                 THEN "buy-to-let"
                 ELSE IF a \in rich_rent
                 THEN (IF w.hh[a].propensity >= 100 - upgrade_tenancy
                       THEN "rent" ELSE "mortgage")
                 ELSE "none"
         IN [w EXCEPT !.hh = [a \in HhIds |->
                IF market(a) = "none" THEN w.hh[a]
                ELSE [w.hh[a] EXCEPT !.on_market = TRUE,
                                     !.on_market_type = market(a)]]]

\* lines 589-619: the rich households enter a market
admit_rich(w, occupying_hhs, poor_mortgage, poor_rent) ==
    IF w.err # "none" THEN w
    ELSE IF \E i \in 1..Len(occupying_hhs) : rich_mortgage_raises(w, occupying_hhs[i])
    THEN Raise(w, "StatisticsError")
    ELSE IF \E i \in 1..Len(occupying_hhs) : rich_rent_raises(w, occupying_hhs[i])
    THEN Raise(w, "AttributeError")
    ELSE LET occ == {occupying_hhs[i] : i \in 1..Len(occupying_hhs)}
             rich_mortgage == {a \in occ : is_rich_mortgage(w, a)}
                                \ {poor_mortgage[i] : i \in 1..Len(poor_mortgage)}
             rich_rent == {a \in occ : is_rich_rent(w, a)}
                                \ {poor_rent[i] : i \in 1..Len(poor_rent)}
             market(a) ==
                 IF a \in rich_mortgage /\ w.hh[a].propensity >= 100 - investors
                 THEN "buy-to-let"
                 ELSE IF a \in rich_rent
                 THEN (IF w.hh[a].propensity >= 100 - upgrade_tenancy
                       THEN "rent" ELSE "mortgage")
                 ELSE "none"
         IN [w EXCEPT !.hh = [a \in HhIds |->
                IF market(a) = "none" THEN w.hh[a]
                ELSE [w.hh[a] EXCEPT !.on_market = TRUE,
                                     !.on_market_type = market(a)]]]

\* manage_market_participation: the set of outcomes
manage_market_participation(w) ==
    LET occupying_hhs == SelectSeq(w.households, LAMBDA a : w.hh[a].my_house # 0)
        poor_mortgage == SelectSeq(occupying_hhs, LAMBDA a : is_poor_mortgage(w, a))
        poor_mortgage_evict ==
            SelectSeq(poor_mortgage, LAMBDA a : Len(w.hh[a].my_ownership) <= 1)
        poor_rent == SelectSeq(occupying_hhs, LAMBDA a : is_poor_rent(w, a))
        poor_evict == poor_mortgage_evict \o poor_rent
        w1 == evict_poor(w, poor_evict)
        poor_mortgage_stay ==
            SelectSeq(poor_mortgage, LAMBDA a : is_poor_mortgage_stay(w1, a))
    IN { admit_rich(w2, occupying_hhs, poor_mortgage, poor_rent)
           : w2 \in force_sell_poor({w1}, poor_mortgage_stay) }

ManageMarketParticipation ==
    /\ pc = "manage_market_participation"
    /\ \E w \in manage_market_participation(World) :
           Becomes(Logged(World, w, "manage_market_participation", 0),
                   "construct_houses")

\* lines 650-667: one house is built on the vacant plot drawn
construct_house(w, plot) ==
    LET h == w.nhouse + 1
        w1 == [w EXCEPT !.house[h] = [NewHouse EXCEPT
                                         !.my_type = "mortgage",
                                         !.end_of_life = w.ticks + LongLife,
                                         !.plot = plot],
                        !.houses = Append(@, h),
                        !.nhouse = h]
        w2 == put_on_market(w1, h)
    IN [w2 EXCEPT !.realtor.locality_houses = Append(@, h)]

vacant_plots(w) ==
    {p \in 1..NumPlots : \A i \in 1..Len(w.houses) : w.house[w.houses[i]].plot # p}

\* lines 648-669: for i in range(n_construct), over the set W of outcomes
RECURSIVE construct_loop(_, _)
construct_loop(W, n) ==
    IF n = 0 THEN W
    ELSE construct_loop(
           UNION { IF vacant_plots(w) # {}
                   THEN { construct_house(w, p) : p \in vacant_plots(w) }
                   ELSE {w}
                     : w \in W },
           n - 1)

\* construct_houses: the set of outcomes, one for every draw of a plot
construct_houses(w) ==
    construct_loop({w}, Min2((Len(w.houses) * house_construction_rate) \div 100,
                             (num_houses + MaxBuilt) - w.nhouse))

ConstructHouses ==
    /\ pc = "construct_houses"
    /\ \E w \in construct_houses(World) : Becomes(w, "trade_houses")

\* evaluate, lines 1348-1378: one value for every local realtor of the house
evaluate(w, h) ==
    LET recs == w.realtor.records
        local(kind) == SelectSeq(recs, LAMBDA r :
                          r.transaction = kind /\ distance(w, h, r.house) <= locality)
        local_sales == column(local("sale"), "sale_price")
        local_rents == column(local("rent"), "rent_price")
    IN IF w.house[h].for_sale
       THEN << IF Len(local_sales) > 0 THEN median(local_sales)
               ELSE w.realtor.mean_price >>
       ELSE IF w.house[h].for_rent
       THEN << IF Len(local_rents) > 0 THEN median(local_rents)
               ELSE w.realtor.mean_rent >>
       ELSE <<>>

\* lines 672-693: the new listings are valued and the medians recorded
value_new_listings(w) ==
    LET houses_for_sale == SelectSeq(w.houses, LAMBDA h : w.house[h].for_sale)
        houses_for_rent == SelectSeq(w.houses, LAMBDA h : w.house[h].for_rent)
        is_new_sale(h) == w.house[h].for_sale /\ w.house[h].date_for_sale = w.ticks
        is_new_rent(h) == w.house[h].for_rent /\ w.house[h].date_for_rent = w.ticks
        w1 == [w EXCEPT !.house = [h \in HouseIds |->
                  IF InSeq(w.houses, h) /\ is_new_sale(h)
                  THEN [w.house[h] EXCEPT !.sale_price = MaxSeq(evaluate(w, h))]
                  ELSE w.house[h]]]
        w2 == [w1 EXCEPT !.house = [h \in HouseIds |->
                  IF InSeq(w.houses, h) /\ is_new_rent(h)
                  THEN [w1.house[h] EXCEPT !.rent_price = MaxSeq(evaluate(w1, h))]
                  ELSE w1.house[h]]]
        prices_on_market == props_of(w2, houses_for_sale, "sale_price")
        rents_on_market == props_of(w2, houses_for_rent, "rent_price")
    IN [w2 EXCEPT
          !.valued = @ \cup { <<h, w.house[h].for_sale, w.ticks>> : h \in
                          { x \in HouseIds : InSeq(w.houses, x)
                                /\ (is_new_sale(x) \/ is_new_rent(x)) } },
          !.monitors.medianPriceForSale =
              IF Len(prices_on_market) > 0 THEN median(prices_on_market) ELSE 0,
          !.monitors.medianPriceForRent =
              IF Len(rents_on_market) > 0 THEN median(rents_on_market) ELSE 0]

\* upperbound with a fault: the deposit does not cap it
upper_num_without_cap(budget, deposit) ==
    IF max_LTV < 100
    THEN (budget + deposit) * (100 - max_LTV)
    ELSE budget + deposit

\* lines 720-725 and 769-774: upperbound, as upper_num / upper_den
upper_num(budget, deposit) ==
    IF max_LTV < 100
    THEN Min2((budget + deposit) * (100 - max_LTV), deposit * 100)
    ELSE budget + deposit
upper_den == IF max_LTV < 100 THEN 100 - max_LTV ELSE 1

\* lines 740-741, 787-788, 819-820: price <= upperbound and price > lowerbound,
\* where lowerbound = upperbound * 0.7
in_band(price, unum, uden) ==
    price * uden <= unum /\ price * uden * 10 > unum * 7

\* lines 745-757: the offer on the dearest house of the pool, over the draws of
\* random.sample when the pool is longer than buyer_search_length
place_offer(w, buyer, pool, price) ==
    LET pools == IF Len(pool) > buyer_search_length
                 THEN Samples(pool, buyer_search_length) ELSE {pool}
        chosen(q) == LET prices == props_of(w, q, price)
                     IN q[IndexOf(prices, MaxSeq(prices))]
    IN { IF Len(q) > 0
         THEN [w EXCEPT !.house[chosen(q)].offered_to = buyer,
                        !.hh[buyer].made_offer_on = chosen(q)]
         ELSE w
           : q \in pools }

\* make-offer-mortgage with a fault: a house that holds an offer stays in the
\* pool of the other bidders
make_offer_mortgage_on_offered(w, buyer, houses_for_sale) ==
    LET x == w.hh[buyer]
        new_repayment == (x.income * affordability) \div (ticks_per_year * 100)
        budget == MortgageFor(new_repayment)
        current_house == x.my_house
        own == x.my_ownership
        owns == current_house # 0 /\ Len(own) > 0
        i == IndexOf(own, current_house)
        deposit == IF owns /\ w.house[current_house].for_sale
                   THEN x.capital + (w.house[current_house].sale_price - x.mortgage[i])
                   ELSE x.capital
        unum == upper_num(budget, deposit)
        pool == SelectSeq(houses_for_sale, LAMBDA h :
                    /\ in_band(w.house[h].sale_price, unum, upper_den)
                    /\ h # current_house
                    /\ ~InSeq(own, h))
    IN IF owns /\ i = 0 THEN {Raise(w, "ValueError")}
       ELSE IF owns /\ w.house[current_house].for_sale /\ i > Len(x.mortgage)
       THEN {Raise(w, "IndexError")}
       ELSE IF unum <= 0
       THEN (IF current_house # 0 THEN {Raise(w, "TypeError")} ELSE {w})
       ELSE place_offer(w, buyer, pool, "sale_price")

\* lines 703-757: make-offer-mortgage
make_offer_mortgage(w, buyer, houses_for_sale) ==
    LET x == w.hh[buyer]
        new_repayment == (x.income * affordability) \div (ticks_per_year * 100)
        budget == MortgageFor(new_repayment)
        current_house == x.my_house
        own == x.my_ownership
        owns == current_house # 0 /\ Len(own) > 0
        i == IndexOf(own, current_house)
        deposit == IF owns /\ w.house[current_house].for_sale
                   THEN x.capital + (w.house[current_house].sale_price - x.mortgage[i])
                   ELSE x.capital
        unum == upper_num(budget, deposit)
        pool == SelectSeq(houses_for_sale, LAMBDA h :
                    /\ w.house[h].offered_to = 0
                    /\ in_band(w.house[h].sale_price, unum, upper_den)
                    /\ h # current_house
                    /\ ~InSeq(own, h))
    IN IF owns /\ i = 0 THEN {Raise(w, "ValueError")}
       ELSE IF owns /\ w.house[current_house].for_sale /\ i > Len(x.mortgage)
       THEN {Raise(w, "IndexError")}
       ELSE IF unum <= 0
       THEN (IF current_house # 0 THEN {Raise(w, "TypeError")} ELSE {w})
       ELSE place_offer(w, buyer, pool, "sale_price")

\* lines 760-804: make offer buy-to-let
make_offer_BTL(w, buyer, houses_for_sale) ==
    LET x == w.hh[buyer]
        new_repayment == (x.income * affordability) \div (ticks_per_year * 100)
        budget == MortgageFor(new_repayment)
        unum == upper_num(budget, x.capital)
        pool == SelectSeq(houses_for_sale, LAMBDA h :
                    /\ w.house[h].offered_to = 0
                    /\ in_band(w.house[h].sale_price, unum, upper_den)
                    /\ h # x.my_house
                    /\ ~InSeq(x.my_ownership, h))
    IN IF unum <= 0 THEN {Raise(w, "TypeError")}
       ELSE place_offer(w, buyer, pool, "sale_price")

\* lines 807-835: make-offer-rent
make_offer_rent(w, buyer, houses_for_rent) ==
    LET x == w.hh[buyer]
        new_rent == (x.income * affordability) \div (ticks_per_year * 100)
        pool == SelectSeq(houses_for_rent, LAMBDA h :
                    /\ w.house[h].offered_to = 0
                    /\ in_band(w.house[h].rent_price, new_rent, 1)
                    /\ h # x.my_house)
    IN place_offer(w, buyer, pool, "rent_price")

\* lines 701-835: for buyer in buyers, over the set W of outcomes
RECURSIVE make_offers(_, _, _, _)
make_offers(W, buyers, houses_for_sale, houses_for_rent) ==
    IF buyers = <<>> THEN W
    ELSE LET b == Head(buyers)
             offer(w) ==
                 IF w.err # "none" THEN {w}
                 ELSE IF w.hh[b].on_market_type = "mortgage"
                 THEN make_offer_mortgage(w, b, houses_for_sale)
                 ELSE IF w.hh[b].on_market_type = "buy-to-let"
                 THEN make_offer_BTL(w, b, houses_for_sale)
                 ELSE IF w.hh[b].on_market_type = "rent"
                 THEN make_offer_rent(w, b, houses_for_rent)
                 ELSE {w}
         IN make_offers(UNION { { Logged(w, w1, "make_offer", b) : w1 \in offer(w) }
                                  : w \in W },
                        Tail(buyers), houses_for_sale, houses_for_rent)

\* follow_chain, lines 1398-1424.  seen holds the households already visited
\* with the same first_household: nothing changes during the recursion, so a
\* second visit repeats for ever and Python raises RecursionError.
RECURSIVE follow_chain_from(_, _, _, _)
follow_chain_from(w, household, first_household, seen) ==
    LET x == w.hh[household]
        target == x.made_offer_on
    IN
    IF household \in seen THEN "RecursionError"
    ELSE IF target = 0 \/ x.on_market = FALSE THEN "False"
    ELSE IF x.on_market_type \in {"mortgage", "buy-to-let"}
    THEN LET seller == w.house[target].my_owner IN
         IF seller = 0 THEN "True"
         ELSE IF Len(w.hh[seller].my_ownership) > 1 THEN "True"
         ELSE IF household = seller THEN "True"
         ELSE IF seller = first_household THEN "True"
         ELSE follow_chain_from(w, seller, first_household, seen \cup {household})
    ELSE IF x.on_market_type = "rent"
    THEN LET occupier == w.house[target].my_occupier IN
         IF occupier = 0 THEN "True"
         ELSE IF occupier = first_household THEN "True"
         ELSE follow_chain_from(w, occupier, first_household, seen \cup {household})
    ELSE "False"

\* follow_chain with a fault: the chain is followed as if every household on
\* it were the first bidder
follow_chain_without_first(w, household, first_household) ==
    follow_chain_from(w, household, household, {})

\* follow_chain with a fault: the first household of the chain is never
\* recognised
follow_chain_past_first(w, household, first_household) ==
    follow_chain_from(w, household, 0, {})

follow_chain(w, household, first_household) ==
    follow_chain_from(w, household, first_household, {})

\* del list[i] on every financial list of the seller, lines 1584-1590, in the
\* order of the source; a list that is too short raises IndexError
RECURSIVE del_records(_, _, _, _)
del_records(w, seller, i, fields) ==
    IF w.err # "none" \/ fields = <<>> THEN w
    ELSE LET f == Head(fields) IN
         IF i > Len(w.hh[seller][f]) THEN Raise(w, "IndexError")
         ELSE del_records([w EXCEPT !.hh[seller][f] = DelAt(@, i)], seller, i,
                          Tail(fields))

\* manage_surplus_seller with a fault: the last record of every financial
\* list is deleted, whichever house is sold
manage_surplus_seller_dropping_last(w, seller, seller_house) ==
    IF w.err # "none" THEN w
    ELSE LET i == IndexOf(w.hh[seller].my_ownership, seller_house) IN
    IF i = 0 THEN Raise(w, "ValueError")
    ELSE IF i > Len(w.hh[seller].mortgage) THEN Raise(w, "IndexError")
    ELSE LET surplus == w.house[seller_house].sale_price - w.hh[seller].mortgage[i]
         IN del_records([w EXCEPT !.hh[seller].capital = @ + surplus], seller,
                Len(w.hh[seller].mortgage),
                << "mortgage", "mortgage_initial", "repayment", "income_rent",
                   "rate", "rate_duration", "mortgage_duration" >>)

\* manage_surplus_seller, lines 1580-1590
manage_surplus_seller(w, seller, seller_house) ==
    IF w.err # "none" THEN w
    ELSE LET i == IndexOf(w.hh[seller].my_ownership, seller_house) IN
    IF i = 0 THEN Raise(w, "ValueError")
    ELSE IF i > Len(w.hh[seller].mortgage) THEN Raise(w, "IndexError")
    ELSE LET surplus == w.house[seller_house].sale_price - w.hh[seller].mortgage[i]
         IN del_records([w EXCEPT !.hh[seller].capital = @ + surplus], seller, i,
                << "mortgage", "mortgage_initial", "repayment", "income_rent",
                   "rate", "rate_duration", "mortgage_duration" >>)

\* manage_surplus_buyer with a fault: a buyer that borrows keeps its capital
manage_surplus_buyer_keeping_capital(w, buyer) ==
    IF w.err # "none" THEN {w}
    ELSE LET new_house == w.hh[buyer].made_offer_on
             price == w.house[new_house].sale_price
             capital == w.hh[buyer].capital
             mortgage_temp == price - capital
             terms == IF Len(w.hh[buyer].my_ownership) = 0
                      THEN min_rate_duration_M..max_rate_duration_M
                      ELSE min_rate_duration_BTL..max_rate_duration_BTL
         IN IF price > capital
            THEN { [w EXCEPT
                      !.hh[buyer].mortgage = Append(@, mortgage_temp),
                      !.hh[buyer].mortgage_initial = Append(@, mortgage_temp),
                      !.hh[buyer].repayment = Append(@, RepaymentFor(mortgage_temp)),
                      !.hh[buyer].income_rent = Append(@, 0),
                      !.hh[buyer].rate = Append(@, interest_per_tick),
                      !.hh[buyer].rate_duration = Append(@, t),
                      !.hh[buyer].mortgage_duration =
                          Append(@, mortgage_duration * ticks_per_year)]
                   : t \in terms }
            ELSE { [w EXCEPT
                      !.hh[buyer].capital = @ - price,
                      !.hh[buyer].mortgage = Append(@, 0),
                      !.hh[buyer].mortgage_initial = Append(@, 0),
                      !.hh[buyer].repayment = Append(@, 0),
                      !.hh[buyer].income_rent = Append(@, 0),
                      !.hh[buyer].rate = Append(@, 0),
                      !.hh[buyer].rate_duration = Append(@, NoneT),
                      !.hh[buyer].mortgage_duration = Append(@, NoneT)] }

\* manage_surplus_buyer, lines 1539-1569: one outcome for every draw of the
\* fixed-rate term
manage_surplus_buyer(w, buyer) ==
    IF w.err # "none" THEN {w}
    ELSE LET new_house == w.hh[buyer].made_offer_on
             price == w.house[new_house].sale_price
             capital == w.hh[buyer].capital
             mortgage_temp == price - capital
             terms == IF Len(w.hh[buyer].my_ownership) = 0
                      THEN min_rate_duration_M..max_rate_duration_M
                      ELSE min_rate_duration_BTL..max_rate_duration_BTL
         IN IF price > capital
            THEN { [w EXCEPT
                      !.hh[buyer].capital = 0,
                      !.hh[buyer].mortgage = Append(@, mortgage_temp),
                      !.hh[buyer].mortgage_initial = Append(@, mortgage_temp),
                      !.hh[buyer].repayment = Append(@, RepaymentFor(mortgage_temp)),
                      !.hh[buyer].income_rent = Append(@, 0),
                      !.hh[buyer].rate = Append(@, interest_per_tick),
                      !.hh[buyer].rate_duration = Append(@, t),
                      !.hh[buyer].mortgage_duration =
                          Append(@, mortgage_duration * ticks_per_year)]
                   : t \in terms }
            ELSE { [w EXCEPT
                      !.hh[buyer].capital = @ - price,
                      !.hh[buyer].mortgage = Append(@, 0),
                      !.hh[buyer].mortgage_initial = Append(@, 0),
                      !.hh[buyer].repayment = Append(@, 0),
                      !.hh[buyer].income_rent = Append(@, 0),
                      !.hh[buyer].rate = Append(@, 0),
                      !.hh[buyer].rate_duration = Append(@, NoneT),
                      !.hh[buyer].mortgage_duration = Append(@, NoneT)] }

\* manage_ownership_buyer_mortgage with a fault: the rental the buyer leaves
\* keeps its occupier and stays off the market
manage_ownership_buyer_mortgage_keeping_rental(w, buyer) ==
    LET new_house == w.hh[buyer].made_offer_on
    IN [w EXCEPT !.house[new_house].my_type = "mortgage",
                 !.house[new_house].my_owner = buyer,
                 !.house[new_house].my_occupier = buyer,
                 !.house[new_house].offered_to = 0,
                 !.house[new_house].for_sale = FALSE,
                 !.house[new_house].for_rent = FALSE,
                 !.hh[buyer].homeless = 0,
                 !.hh[buyer].my_type = "mortgage",
                 !.hh[buyer].my_house = new_house,
                 !.hh[buyer].my_ownership = <<new_house>>,
                 !.hh[buyer].made_offer_on = 0,
                 !.hh[buyer].on_market = FALSE,
                 !.hh[buyer].on_market_type = "none"]

\* lines 1438-1464: the buyer is on the mortgage market
manage_ownership_buyer_mortgage(w, buyer) ==
    LET current_house == w.hh[buyer].my_house
        new_house == w.hh[buyer].made_offer_on
        w1 == IF current_house # 0 /\ w.house[current_house].my_type = "rent"
              THEN put_on_market([w EXCEPT !.house[current_house].my_occupier = 0,
                                           !.house[current_house].offered_to = 0],
                                 current_house)
              ELSE w
    IN [w1 EXCEPT !.house[new_house].my_type = "mortgage",
                  !.house[new_house].my_owner = buyer,
                  !.house[new_house].my_occupier = buyer,
                  !.house[new_house].offered_to = 0,
                  !.house[new_house].for_sale = FALSE,
                  !.house[new_house].for_rent = FALSE,
                  !.hh[buyer].homeless = 0,
                  !.hh[buyer].my_type = "mortgage",
                  !.hh[buyer].my_house = new_house,
                  !.hh[buyer].my_ownership = <<new_house>>,
                  !.hh[buyer].made_offer_on = 0,
                  !.hh[buyer].on_market = FALSE,
                  !.hh[buyer].on_market_type = "none"]

\* manage_ownership_buyer for a buy-to-let buyer with a fault: the house is
\* listed for rent without the buyer becoming its owner
manage_ownership_buyer_BTL_keeping_owner(w, buyer) ==
    LET new_house == w.hh[buyer].made_offer_on
        w1 == put_on_market([w EXCEPT !.house[new_house].my_type = "rent",
                                      !.house[new_house].my_occupier = 0,
                                      !.house[new_house].offered_to = 0],
                            new_house)
        last == w.hh[buyer].repayment[Len(w.hh[buyer].repayment)]
    IN [w1 EXCEPT !.house[new_house].rent_price =
                      Max2(MaxSeq(evaluate(w1, new_house)), last),
                  !.valued = @ \cup {<<new_house, FALSE, w.ticks>>},
                  !.hh[buyer].my_ownership = Append(@, new_house),
                  !.hh[buyer].made_offer_on = 0,
                  !.hh[buyer].on_market = FALSE,
                  !.hh[buyer].on_market_type = "none"]

\* lines 1467-1483: the buyer is on the buy-to-let market
manage_ownership_buyer_BTL(w, buyer) ==
    LET new_house == w.hh[buyer].made_offer_on
        w1 == put_on_market([w EXCEPT !.house[new_house].my_type = "rent",
                                      !.house[new_house].my_owner = buyer,
                                      !.house[new_house].my_occupier = 0,
                                      !.house[new_house].offered_to = 0],
                            new_house)
        last == w.hh[buyer].repayment[Len(w.hh[buyer].repayment)]
    IN [w1 EXCEPT !.house[new_house].rent_price =
                      Max2(MaxSeq(evaluate(w1, new_house)), last),
                  !.valued = @ \cup {<<new_house, FALSE, w.ticks>>},
                  !.hh[buyer].my_ownership = Append(@, new_house),
                  !.hh[buyer].made_offer_on = 0,
                  !.hh[buyer].on_market = FALSE,
                  !.hh[buyer].on_market_type = "none"]

\* manage_ownership_buyer, lines 1434-1483
manage_ownership_buyer(w, buyer) ==
    IF w.err # "none" THEN w
    ELSE LET w1 == record_price(w, w.hh[buyer].made_offer_on, "sale") IN
         IF w.hh[buyer].on_market_type = "mortgage"
         THEN manage_ownership_buyer_mortgage(w1, buyer)
         ELSE IF w.hh[buyer].on_market_type = "buy-to-let"
         THEN manage_ownership_buyer_BTL(w1, buyer)
         ELSE w1

\* manage_ownership_seller with a fault: the sold house stays in the seller's
\* portfolio
manage_ownership_seller_keeping_house(w, seller, seller_house) ==
    IF w.err # "none" THEN w
    ELSE IF ~InSeq(w.hh[seller].my_ownership, seller_house) THEN Raise(w, "ValueError")
    ELSE w

\* manage_ownership_seller, line 1494
manage_ownership_seller(w, seller, seller_house) ==
    IF w.err # "none" THEN w
    ELSE IF ~InSeq(w.hh[seller].my_ownership, seller_house) THEN Raise(w, "ValueError")
    ELSE [w EXCEPT !.hh[seller].my_ownership = RemoveFirst(@, seller_house)]

\* manage_surplus_landlord with a fault: the rent is recorded against the
\* first house of the landlord
manage_surplus_landlord_on_first(w, landlord, landlord_house) ==
    IF w.err # "none" THEN w
    ELSE IF landlord = 0 THEN Raise(w, "AttributeError")
    ELSE LET i == IndexOf(w.hh[landlord].my_ownership, landlord_house) IN
         IF i = 0 THEN Raise(w, "ValueError")
         ELSE IF i > Len(w.hh[landlord].income_rent) THEN Raise(w, "IndexError")
         ELSE [w EXCEPT !.hh[landlord].income_rent[1] =
                            w.house[landlord_house].rent_price]

\* manage_surplus_landlord, lines 1612-1613
manage_surplus_landlord(w, landlord, landlord_house) ==
    IF w.err # "none" THEN w
    ELSE IF landlord = 0 THEN Raise(w, "AttributeError")
    ELSE LET i == IndexOf(w.hh[landlord].my_ownership, landlord_house) IN
         IF i = 0 THEN Raise(w, "ValueError")
         ELSE IF i > Len(w.hh[landlord].income_rent) THEN Raise(w, "IndexError")
         ELSE [w EXCEPT !.hh[landlord].income_rent[i] =
                            w.house[landlord_house].rent_price]

\* manage_surplus_tenant, lines 1600-1601
manage_surplus_tenant(w, tenant) ==
    IF w.err # "none" THEN w
    ELSE [w EXCEPT !.hh[tenant].my_rent =
                       w.house[w.hh[tenant].made_offer_on].rent_price]

\* manage_ownership_tenant with a fault: the house the tenant leaves is put on
\* the market with the tenant still recorded as its occupier
manage_ownership_tenant_keeping_occupier(w, tenant) ==
    IF w.err # "none" THEN w
    ELSE LET new_house == w.hh[tenant].made_offer_on
             old_house == w.hh[tenant].my_house
             w1 == record_price(w, new_house, "rent")
             w2 == [w1 EXCEPT !.hh[tenant].homeless = 0,
                              !.hh[tenant].my_type = "rent",
                              !.hh[tenant].my_house = new_house,
                              !.hh[tenant].my_rent = w1.house[new_house].rent_price,
                              !.hh[tenant].my_ownership = <<>>,
                              !.hh[tenant].made_offer_on = 0,
                              !.hh[tenant].on_market = FALSE,
                              !.hh[tenant].on_market_type = "none"]
             occupier == w2.house[new_house].my_occupier
             w3 == IF occupier # 0 THEN [w2 EXCEPT !.hh[occupier].my_house = 0] ELSE w2
             w4 == [w3 EXCEPT !.house[new_house].my_occupier = tenant,
                              !.house[new_house].for_sale = FALSE,
                              !.house[new_house].for_rent = FALSE]
         IN IF old_house # 0 THEN put_on_market(w4, old_house) ELSE w4

\* manage_ownership_tenant, lines 1504-1529
manage_ownership_tenant(w, tenant) ==
    IF w.err # "none" THEN w
    ELSE LET new_house == w.hh[tenant].made_offer_on
             old_house == w.hh[tenant].my_house
             w1 == record_price(w, new_house, "rent")
             w2 == [w1 EXCEPT !.hh[tenant].homeless = 0,
                              !.hh[tenant].my_type = "rent",
                              !.hh[tenant].my_house = new_house,
                              !.hh[tenant].my_rent = w1.house[new_house].rent_price,
                              !.hh[tenant].my_ownership = <<>>,
                              !.hh[tenant].made_offer_on = 0,
                              !.hh[tenant].on_market = FALSE,
                              !.hh[tenant].on_market_type = "none"]
             occupier == w2.house[new_house].my_occupier
             w3 == IF occupier # 0 THEN [w2 EXCEPT !.hh[occupier].my_house = 0] ELSE w2
             w4 == [w3 EXCEPT !.house[new_house].my_occupier = tenant,
                              !.house[new_house].for_sale = FALSE,
                              !.house[new_house].for_rent = FALSE]
         IN IF old_house # 0
            THEN put_on_market([w4 EXCEPT !.house[old_house].my_occupier = 0], old_house)
            ELSE w4

\* lines 849-857: a bidder on the mortgage or buy-to-let market settles
settle_purchase(w, buyer) ==
    LET new_house == w.hh[buyer].made_offer_on
        seller == w.house[new_house].my_owner
        w1 == IF seller # 0 THEN manage_surplus_seller(w, seller, new_house) ELSE w
    IN { IF seller # 0
         THEN manage_ownership_seller(manage_ownership_buyer(w2, buyer), seller, new_house)
         ELSE manage_ownership_buyer(w2, buyer)
           : w2 \in manage_surplus_buyer(w1, buyer) }

\* lines 860-865: a bidder on the rent market settles
settle_tenancy(w, tenant) ==
    LET new_house == w.hh[tenant].made_offer_on
        landlord == w.house[new_house].my_owner
    IN manage_ownership_tenant(
         manage_surplus_tenant(
           manage_surplus_landlord(w, landlord, new_house), tenant), tenant)

\* lines 845-865: the body of the settlement loop for the bidder hh
settle_offer(w, a) ==
    IF w.err # "none" THEN {w}
    ELSE LET chain == follow_chain(w, a, a) IN
         IF chain = "RecursionError" THEN {Raise(w, "RecursionError")}
         ELSE IF chain # "True" THEN {w}
         ELSE IF w.hh[a].on_market_type \in {"mortgage", "buy-to-let"}
         THEN settle_purchase(w, a)
         ELSE IF w.hh[a].on_market_type = "rent"
         THEN {settle_tenancy(w, a)}
         ELSE {w}

\* lines 844-865: for hh in offering_buyers, over the set W of outcomes
RECURSIVE settle_offers(_, _)
settle_offers(W, offering_buyers) ==
    IF offering_buyers = <<>> THEN W
    ELSE LET a == Head(offering_buyers)
             settled(w) ==
                 { [w1 EXCEPT !.calls = Append(@,
                        Call("settle", a, a, w, w1,
                             IF w.err = "none" THEN follow_chain(w, a, a)
                             ELSE "None"))]
                     : w1 \in settle_offer(w, a) }
         IN settle_offers(UNION { settled(w) : w \in W }, Tail(offering_buyers))

\* lines 696 and 838-841: the bidders that hold an offer
offering_buyers(w) ==
    SelectSeq(w.households,
              LAMBDA a : w.hh[a].on_market /\ w.hh[a].made_offer_on # 0)

\* trade_houses up to line 835: valuation and matching
trade_houses_match(w) ==
    LET w1 == value_new_listings(w)
        houses_for_sale == SelectSeq(w.houses, LAMBDA h : w.house[h].for_sale)
        houses_for_rent == SelectSeq(w.houses, LAMBDA h : w.house[h].for_rent)
        buyers == SelectSeq(w.households, LAMBDA a : w.hh[a].on_market)
    IN make_offers({w1}, buyers, houses_for_sale, houses_for_rent)

\* trade_houses from line 837: settlement
trade_houses_settle(w) == settle_offers({w}, offering_buyers(w))

\* trade_houses, lines 671-865
trade_houses(w) ==
    UNION { IF w1.err # "none" THEN {w1} ELSE trade_houses_settle(w1)
              : w1 \in trade_houses_match(w) }

TradeHouses ==
    /\ pc = "trade_houses"
    /\ \E w \in trade_houses(World) : Becomes(w, "manage_outdated_records")

\* lines 871-874: for record in records, removing from the list that is being
\* iterated; i is the position of the list iterator
RECURSIVE outdated_loop(_, _, _)
outdated_loop(records, i, now) ==
    IF i > Len(records) THEN records
    ELSE IF records[i].date < now - realtor_memory
    THEN outdated_loop(RemoveFirst(records, records[i]), i + 1, now)
    ELSE outdated_loop(records, i + 1, now)

\* manage_outdated_records, lines 867-874
manage_outdated_records(w) ==
    [w EXCEPT !.realtor.records = outdated_loop(@, 1, w.ticks)]

ManageOutdatedRecords ==
    /\ pc = "manage_outdated_records"
    /\ Becomes(manage_outdated_records(World), "remove_offers")

\* lines 880-883: for house in houses_on_market
RECURSIVE remove_offers_loop(_, _)
remove_offers_loop(w, houses_on_market) ==
    IF houses_on_market = <<>> THEN w
    ELSE LET h == Head(houses_on_market)
             o == w.house[h].offered_to
             w1 == IF o # 0 THEN [w EXCEPT !.hh[o].made_offer_on = 0] ELSE w
         IN remove_offers_loop([w1 EXCEPT !.house[h].offered_to = 0],
                               Tail(houses_on_market))

\* remove_offers, lines 876-883
remove_offers(w) ==
    remove_offers_loop(w, SelectSeq(w.houses,
        LAMBDA h : w.house[h].for_sale \/ w.house[h].for_rent))

RemoveOffers ==
    /\ pc = "remove_offers"
    /\ Becomes(remove_offers(World), "demolish_houses")

\* remove_record, lines 1321-1329
remove_record(w, h) ==
    IF w.err # "none" THEN w
    ELSE [w EXCEPT !.realtor.records = SelectSeq(@, LAMBDA r : r.house # h)]

\* remove_agent(house) of the bookkeeping collaborator
remove_house(w, h) ==
    IF w.err # "none" THEN w
    ELSE [w EXCEPT !.houses = SelectSeq(@, LAMBDA x : x # h)]

\* lines 938-941, 966-969, 981-984: the owner is paid for the demolished house
demolish_pay_owner(w, owner, h) ==
    IF w.err # "none" THEN w
    ELSE IF owner = 0 THEN Raise(w, "AttributeError")
    ELSE LET i == IndexOf(w.hh[owner].my_ownership, h) IN
         IF i = 0 THEN Raise(w, "ValueError")
         ELSE IF i > Len(w.hh[owner].mortgage) THEN Raise(w, "IndexError")
         ELSE [w EXCEPT !.hh[owner].capital =
                  Max2(@ + w.house[h].sale_price - w.hh[owner].mortgage[i], 0)]

\* lines 945-952 and 989-997: the house leaves the portfolio of its owner
demolish_drop_record(w, owner, h) ==
    IF w.err # "none" THEN w
    ELSE LET i == IndexOf(w.hh[owner].my_ownership, h) IN
         IF i = 0 THEN Raise(w, "ValueError")
         ELSE del_records(w, owner, i,
                << "my_ownership", "mortgage", "mortgage_initial", "mortgage_duration",
                   "repayment", "income_rent", "rate", "rate_duration" >>)

\* lines 929-954: one rent house is demolished
demolish_rent_house(w, h) ==
    IF w.err # "none" THEN w
    ELSE LET w1 == remove_record(w, h)
             owner == w1.house[h].my_owner
             occupier == w1.house[h].my_occupier
             w2 == IF occupier # 0
                   THEN enter_market(evict(w1, occupier), occupier, "rent") ELSE w1
             w3 == demolish_pay_owner(w2, owner, h)
             o == w3.house[h].offered_to
             w4 == IF w3.err = "none" /\ o # 0
                   THEN [w3 EXCEPT !.hh[o].made_offer_on = 0] ELSE w3
         IN remove_house(demolish_drop_record(w4, owner, h), h)

\* lines 959-999: one mortgage house is demolished
demolish_mortgage_house(w, h) ==
    IF w.err # "none" THEN w
    ELSE LET w1 == remove_record(w, h)
             owner == w1.house[h].my_owner
             occupier == w1.house[h].my_occupier
             w2 == IF w1.house[h].for_sale = FALSE
                   THEN enter_market(evict(demolish_pay_owner(w1, owner, h), occupier),
                                     occupier, "mortgage")
                   ELSE w1
             listed == w2.house[h].for_sale \/ w2.house[h].for_rent
             o == w2.house[h].offered_to
             w3 == IF w2.err = "none" /\ listed /\ o # 0
                   THEN [w2 EXCEPT !.hh[o].made_offer_on = 0] ELSE w2
             w4 == IF w3.err = "none" /\ listed
                      /\ w3.house[h].my_occupier # 0 /\ w3.house[h].my_owner # 0
                   THEN enter_market(evict(demolish_pay_owner(w3, owner, h), occupier),
                                     occupier, "mortgage")
                   ELSE w3
             w5 == IF w4.err = "none" /\ owner # 0 /\ occupier = 0
                   THEN demolish_drop_record(w4, owner, h) ELSE w4
         IN remove_house(w5, h)

RECURSIVE demolish_rent_loop(_, _)
demolish_rent_loop(w, hs) ==
    IF hs = <<>> THEN w
    ELSE demolish_rent_loop(demolish_rent_house(w, Head(hs)), Tail(hs))

RECURSIVE demolish_mortgage_loop(_, _)
demolish_mortgage_loop(w, hs) ==
    IF hs = <<>> THEN w
    ELSE demolish_mortgage_loop(demolish_mortgage_house(w, Head(hs)), Tail(hs))

\* demolish_houses, lines 885-999; price * 100 < median * percent stands for
\* price < median * (percent / 100)
demolish_houses(w) ==
    LET mortgage_houses_demolish == SelectSeq(w.houses, LAMBDA h :
            /\ w.house[h].my_type = "mortgage"
            /\ \/ w.ticks > w.house[h].end_of_life
               \/ /\ w.house[h].for_sale
                  /\ w.house[h].sale_price * 100
                       < w.monitors.medianPriceForSale * min_price_percent)
        rent_houses_demolish == SelectSeq(w.houses, LAMBDA h :
            /\ w.house[h].my_type = "rent"
            /\ \/ w.ticks > w.house[h].end_of_life
               \/ /\ w.house[h].for_rent
                  /\ w.house[h].rent_price * 100
                       < w.monitors.medianPriceForRent * min_price_percent)
    IN demolish_mortgage_loop(demolish_rent_loop(w, rent_houses_demolish),
                              mortgage_houses_demolish)

DemolishHouses ==
    /\ pc = "demolish_houses"
    /\ Becomes(Logged(World, demolish_houses(World), "demolish_houses", 0),
               "decay_prices")

\* decay_prices, lines 1001-1009
decay_prices(w) ==
    [w EXCEPT !.house = [h \in HouseIds |->
        IF /\ InSeq(w.houses, h)
           /\ \/ w.house[h].for_sale /\ w.house[h].my_type = "mortgage"
              \/ w.house[h].for_rent /\ w.house[h].my_type = "rent"
        THEN [w.house[h] EXCEPT
                !.sale_price = (@ * (100 - price_drop_rate)) \div 100,
                !.rent_price = (@ * (100 - rent_drop_rate)) \div 100]
        ELSE w.house[h]]]

DecayPrices ==
    /\ pc = "decay_prices"
    /\ Becomes(Logged(World, decay_prices(World), "decay_prices", 0),
               "update_owners")

\* repay_record with a fault: the repayment of a loan that is paid off is
\* left as it was
repay_record_keeping_repayment(w, owner, i) ==
    LET x == w.hh[owner]
        left == x.mortgage[i] - x.repayment[i]
        w1 == [w EXCEPT !.hh[owner].mortgage[i] = IF left <= 0 THEN 0 ELSE left]
    IN [w1 EXCEPT !.hh[owner].capital = @ + (x.income_surplus * savings) \div 100]

\* lines 1020-1024: the repayment of record i and the saving of the owner
repay_record(w, owner, i) ==
    LET x == w.hh[owner]
        left == x.mortgage[i] - x.repayment[i]
        w1 == IF left <= 0
              THEN [w EXCEPT !.hh[owner].mortgage[i] = 0,
                             !.hh[owner].repayment[i] = 0]
              ELSE [w EXCEPT !.hh[owner].mortgage[i] = left]
    IN [w1 EXCEPT !.hh[owner].capital = @ + (x.income_surplus * savings) \div 100]

\* lines 1034-1042: the rate is reset with the drawn fixed-rate term, and the
\* remaining terms are counted down
reset_rate(w, owner, i, term) ==
    LET w1 == [w EXCEPT !.hh[owner].rate[i] = interest_per_tick,
                        !.hh[owner].rate_duration[i] = term]
        w2 == IF w1.hh[owner].rate_duration[i] # NoneT
              THEN [w1 EXCEPT !.hh[owner].rate_duration[i] = @ - 1] ELSE w1
    IN IF i > Len(w2.hh[owner].mortgage_duration) THEN Raise(w2, "IndexError")
       ELSE IF w2.hh[owner].mortgage_duration[i] # NoneT
       THEN [w2 EXCEPT !.hh[owner].mortgage_duration[i] = @ - 1]
       ELSE w2

\* lines 1020-1042: record i of the owner, one outcome for every draw
update_record(w, owner, i) ==
    IF w.err # "none" THEN {w}
    ELSE LET x == w.hh[owner] IN
    IF i > Len(x.mortgage) \/ i > Len(x.repayment) THEN {Raise(w, "IndexError")}
    ELSE LET w1 == repay_record(w, owner, i)
             y == w1.hh[owner]
         IN IF i > Len(y.rate_duration) THEN {Raise(w1, "IndexError")}
            ELSE IF ~(y.rate_duration[i] = 0 /\ y.repayment[i] > 0) THEN {w1}
            ELSE IF i > Len(y.rate) THEN {Raise(w1, "IndexError")}
            ELSE IF y.rate[i] # interest_per_tick
            THEN (IF i > Len(y.mortgage_initial) THEN {Raise(w1, "IndexError")}
                  ELSE {Raise(w1, "KeyError")})
            ELSE { reset_rate(w1, owner, i, t)
                     : t \in IF i = 1
                             THEN min_rate_duration_M..max_rate_duration_M
                             ELSE min_rate_duration_BTL..max_rate_duration_BTL }

\* lines 1019-1042: for i in range(len(my_ownership)), over the outcomes W
RECURSIVE update_records(_, _, _, _)
update_records(W, owner, i, n) ==
    IF i > n THEN W
    ELSE update_records(UNION { update_record(w, owner, i) : w \in W }, owner, i + 1, n)

\* lines 1018-1043: for owner in owners
RECURSIVE update_owners_loop(_, _)
update_owners_loop(W, owners) ==
    IF owners = <<>> THEN W
    ELSE LET a == Head(owners)
             done(w) == { IF w1.err # "none" THEN w1 ELSE update_income(w1, a, FALSE)
                            : w1 \in update_records({w}, a, 1, Len(w.hh[a].my_ownership)) }
         IN update_owners_loop(UNION { done(w) : w \in W }, Tail(owners))

\* lines 1051-1053: for hh in non_owners
RECURSIVE update_non_owners(_, _)
update_non_owners(w, non_owners) ==
    IF w.err # "none" \/ non_owners = <<>> THEN w
    ELSE LET a == Head(non_owners)
             w1 == [w EXCEPT !.hh[a].capital =
                       @ + (w.hh[a].income_surplus * savings_rent) \div 100]
         IN update_non_owners(update_income(w1, a, FALSE), Tail(non_owners))

\* update_owners, lines 1011-1053: the set of outcomes
update_owners(w) ==
    LET owners == SelectSeq(w.households, LAMBDA a : Len(w.hh[a].my_ownership) > 0)
    IN { update_non_owners(w1,
             SelectSeq(w1.households, LAMBDA a : Len(w1.hh[a].my_ownership) = 0))
           : w1 \in update_owners_loop({w}, owners) }

UpdateOwners ==
    /\ pc = "update_owners"
    /\ \E w \in update_owners(World) :
          Becomes(Logged(World, w, "update_owners", 0), "update_globals")

Next ==
    \/ UpdateGlobals
    \/ ManagePopulationDynamics
    \/ ManageMarketParticipation
    \/ ConstructHouses
    \/ TradeHouses
    \/ ManageOutdatedRecords
    \/ RemoveOffers
    \/ DemolishHouses
    \/ DecayPrices
    \/ UpdateOwners

Spec == Init /\ [][Next]_vars

---------------------------------------------------------------------------
(* Settlement on a constructed book of offers.  In the runs of step() above *)
(* every listed house is vacant, so a chain never has an intermediate      *)
(* household; the chains of spec section 4.5 are built directly on the     *)
(* objects of the model, as a test of trade_houses does.                   *)

\* the households and houses of a constructed book
ChainSize == 3
ChainIds == 1..ChainSize

\* Tenures: household 1 is homeless or owns and occupies house 1; household
\* a > 1 is homeless (house a unowned, or a vacant rent house of 1), owns and
\* occupies house a, or is the tenant of house a owned by 1.
ChainTenures ==
    { t \in [ChainIds -> {"none", "owner", "tenant", "let"}] :
        /\ t[1] \in {"none", "owner"}
        /\ t[1] = "none" => \A a \in ChainIds : t[a] \in {"none", "owner"} }

\* Offers: at most one bidder for a house
ChainOffers ==
    { o \in [ChainIds -> {0} \cup ChainIds] :
        \A a, b \in ChainIds : (a # b /\ o[a] # 0) => o[a] # o[b] }

\* a constructed book: the tenures, the offers, the market of every
\* household, whether the owners that buy do so to let, and a household that
\* is off the market (0: none)
ChainDraws ==
    [ tenure : ChainTenures,
      offer : ChainOffers,
      market : [ChainIds -> {"mortgage", "rent"}],
      investors : BOOLEAN,
      idle : {0, 2} ]

ChainPrice == 24
ChainRent == 32
ChainIncome == 80

chain_owner(c, h) ==
    IF c.tenure[h] = "owner" THEN h
    ELSE IF c.tenure[h] \in {"tenant", "let"} THEN 1
    ELSE 0

chain_occupier(c, h) == IF c.tenure[h] \in {"owner", "tenant"} THEN h ELSE 0

chain_market(c, a) ==
    IF c.investors /\ c.tenure[a] = "owner" /\ c.market[a] = "mortgage"
    THEN "buy-to-let" ELSE c.market[a]

\* the bidder for house h, 0 when there is none
chain_bidder(c, h) ==
    IF \E a \in ChainIds : c.offer[a] = h
    THEN CHOOSE a \in ChainIds : c.offer[a] = h
    ELSE 0

\* House number h of the book, as House() and the purchase or the letting
\* that gave it its owner and occupier leave it
chain_house(c, h) ==
    LET b == chain_bidder(c, h) IN
    [NewHouse EXCEPT
        !.my_type = IF c.tenure[h] \in {"tenant", "let"} THEN "rent" ELSE "mortgage",
        !.end_of_life = LongLife,
        !.for_sale = (b # 0 /\ chain_market(c, b) # "rent"),
        !.for_rent = (b # 0 /\ chain_market(c, b) = "rent"),
        !.date_for_sale = IF b # 0 /\ chain_market(c, b) # "rent" THEN 1 ELSE 0,
        !.date_for_rent = IF b # 0 /\ chain_market(c, b) = "rent" THEN 1 ELSE 0,
        !.my_owner = chain_owner(c, h),
        !.my_occupier = chain_occupier(c, h),
        !.sale_price = ChainPrice,
        !.rent_price = ChainRent,
        !.offered_to = b,
        !.plot = h]

\* Household number a of the book, as Household() and the same transactions
\* leave it: one financial record for every house it owns
chain_household(c, a) ==
    LET own == SelectSeq([h \in ChainIds |-> h], LAMBDA h : chain_owner(c, h) = a)
        n == Len(own)
        capital == IF a = 1 THEN ChainPrice \div 3 ELSE ChainPrice
        mortgage == ChainPrice - ChainPrice \div 3
    IN [NewHousehold EXCEPT
        !.my_house = chain_occupier(c, a),
        !.income = ChainIncome,
        !.capital = capital,
        !.my_type = IF n > 0 THEN "mortgage" ELSE "rent",
        !.my_rent = IF c.tenure[a] = "tenant" THEN ChainRent ELSE 0,
        !.my_ownership = own,
        !.mortgage = [i \in 1..n |-> mortgage],
        !.mortgage_initial = [i \in 1..n |-> mortgage],
        !.repayment = [i \in 1..n |-> RepaymentFor(mortgage)],
        !.income_rent = [i \in 1..n |->
                           IF c.tenure[own[i]] = "tenant" THEN ChainRent ELSE 0],
        !.rate = [i \in 1..n |-> interest_per_tick],
        !.rate_duration = [i \in 1..n |-> max_rate_duration_BTL * ticks_per_year],
        !.mortgage_duration = [i \in 1..n |-> mortgage_duration * ticks_per_year],
        !.made_offer_on = c.offer[a],
        !.on_market = (c.offer[a] # 0 /\ c.idle # a),
        !.on_market_type = chain_market(c, a)]

\* the model that holds the book c, at tick 1
chain_world(c) ==
    [EmptyWorld EXCEPT
        !.house = [h \in HouseIds |->
                      IF h \in ChainIds THEN chain_house(c, h) ELSE NewHouse],
        !.hh = [a \in HhIds |->
                   IF a \in ChainIds THEN chain_household(c, a) ELSE NewHousehold],
        !.houses = [h \in ChainIds |-> h],
        !.households = [a \in ChainIds |-> a],
        !.realtor.locality_houses = [h \in ChainIds |-> h],
        !.ticks = 1,
        !.nhouse = ChainSize,
        !.nhh = ChainSize]

ChainInit ==
    \E c \in ChainDraws :
        LET w == chain_world(c) IN
        /\ house = w.house
        /\ hh = w.hh
        /\ houses = w.houses
        /\ households = w.households
        /\ realtor = w.realtor
        /\ monitors = w.monitors
        /\ ticks = w.ticks
        /\ nhouse = w.nhouse
        /\ nhh = w.nhh
        /\ valued = w.valued
        /\ pc = "settlement"
        /\ err = "none"
        /\ calls = <<>>

\* one call of follow_chain on the book, which it leaves as it is
FollowChain ==
    /\ pc = "settlement"
    /\ \E household, first_household \in ChainIds :
          calls' = << Call("follow_chain", household, first_household, World, World,
                           follow_chain(World, household, first_household)) >>
    /\ pc' = "followed"
    /\ UNCHANGED << house, hh, houses, households, realtor, monitors, ticks,
                    nhouse, nhh, err, valued >>

\* the settlement loop of trade_houses on the book
SettleOffers ==
    /\ pc = "settlement"
    /\ \E w \in trade_houses_settle(World) :
          Becomes(Logged(World, w, "trade_houses", 0), "settled")

ChainNext ==
    \/ FollowChain
    \/ SettleOffers

ChainSpec == ChainInit /\ [][ChainNext]_vars

---------------------------------------------------------------------------
(* Matching and settlement on a constructed market: the scenario of spec   *)
(* section 8 (a household, a house for sale, a house for rent) with a      *)
(* second bidder and an owner.  Household 1 owns and occupies house 1;     *)
(* houses 2 and 3 are vacant listings, each for sale or for rent, unowned  *)
(* or owned by household 1; households 2 and 3 are the bidders; household  *)
(* 2 is homeless or the tenant of house 4, which household 1 lets.         *)

MarketListings == {2, 3}
MarketBidders == {2, 3}

\* the income of every household, the capital of a household that has some,
\* the capital of a household that can buy without a loan, and the balance
\* of the mortgage on the residence of household 1
MarketIncome == 100
MarketCapital == 10
MarketWealth == 100
MarketMortgage == 40

\* the prices of a listing: the lower end of the band of a bidder with
\* MarketIncome and MarketCapital, a price inside the band, its upper end,
\* and a price that only a bidder with MarketWealth can pay (no rent bidder
\* can)
SalePrices == [lower |-> 28, inner |-> 30, upper |-> 40, high |-> 99]
RentPrices == [lower |-> 56, inner |-> 60, upper |-> 80, high |-> 99]

MarketDraws ==
    [ owner : [MarketListings -> {0, 1}],
      kind : [MarketListings -> {"sale", "rent"}],
      price : [MarketListings -> {"lower", "inner", "upper", "high"}],
      market : [MarketBidders -> {"none", "mortgage", "rent"}],
      capital : { f \in [MarketBidders -> {0, MarketCapital, MarketWealth}] :
                      f[2] # MarketWealth /\ f[3] # 0 },
      investor : BOOLEAN,
      reserve : {0, MarketCapital},
      tenant : BOOLEAN ]

\* the houses of household 1, its residence first
market_ownership(c) ==
    <<1>> \o SelectSeq(<<2, 3>>, LAMBDA h : c.owner[h] = 1)
          \o (IF c.tenant THEN <<4>> ELSE <<>>)

market_house(c, h) ==
    IF h = 1
    THEN [NewHouse EXCEPT !.my_type = "mortgage", !.end_of_life = LongLife,
                          !.for_sale = FALSE, !.my_owner = 1, !.my_occupier = 1,
                          !.sale_price = SalePrices.upper, !.plot = 1]
    ELSE IF h = 4
    THEN [NewHouse EXCEPT !.my_type = "rent", !.end_of_life = LongLife,
                          !.for_sale = FALSE, !.my_owner = 1, !.my_occupier = 2,
                          !.sale_price = SalePrices.upper,
                          !.rent_price = RentPrices.lower, !.plot = 4]
    ELSE IF c.kind[h] = "sale"
    THEN [NewHouse EXCEPT !.my_type = "mortgage", !.end_of_life = LongLife,
                          !.for_sale = TRUE, !.my_owner = c.owner[h],
                          !.sale_price = SalePrices[c.price[h]], !.plot = h]
    ELSE [NewHouse EXCEPT !.my_type = "rent", !.end_of_life = LongLife,
                          !.for_sale = FALSE, !.for_rent = TRUE,
                          !.my_owner = c.owner[h],
                          !.sale_price = SalePrices.upper,
                          !.rent_price = RentPrices[c.price[h]], !.plot = h]

\* the loan outstanding on house h of the landlord: a different amount on each
\* house
market_loan(h) == MarketMortgage + h - 1

market_household(c, a) ==
    LET own == market_ownership(c)
        n == Len(own)
    IN IF a = 1
       THEN [NewHousehold EXCEPT
               !.my_house = 1,
               !.income = MarketIncome,
               !.capital = c.reserve,
               !.my_type = "mortgage",
               !.my_ownership = own,
               !.mortgage = [i \in 1..n |-> market_loan(own[i])],
               !.mortgage_initial = [i \in 1..n |-> market_loan(own[i]) + 1],
               !.repayment = [i \in 1..n |-> RepaymentFor(market_loan(own[i]))],
               !.income_rent = [i \in 1..n |->
                                  IF own[i] = 4 THEN RentPrices.lower ELSE 0],
               !.rate = [i \in 1..n |-> interest_per_tick],
               !.rate_duration = [i \in 1..n |-> max_rate_duration_BTL * ticks_per_year],
               !.mortgage_duration = [i \in 1..n |-> mortgage_duration * ticks_per_year],
               !.on_market = c.investor,
               !.on_market_type = IF c.investor THEN "buy-to-let" ELSE "none"]
       ELSE [NewHousehold EXCEPT
               !.my_house = IF a = 2 /\ c.tenant THEN 4 ELSE 0,
               !.my_rent = IF a = 2 /\ c.tenant THEN RentPrices.lower ELSE 0,
               !.income = MarketIncome,
               !.capital = c.capital[a],
               !.my_type = IF a = 2 /\ c.tenant THEN "rent"
                           ELSE IF c.market[a] = "none" THEN "rent"
                           ELSE c.market[a],
               !.on_market = (c.market[a] # "none"),
               !.on_market_type = c.market[a]]

\* the model that holds the market c at tick 1, every listing made before
market_world(c) ==
    LET hs == IF c.tenant THEN <<1, 2, 3, 4>> ELSE <<1, 2, 3>> IN
    [EmptyWorld EXCEPT
        !.house = [h \in HouseIds |->
                      IF InSeq(hs, h) THEN market_house(c, h) ELSE NewHouse],
        !.hh = [a \in HhIds |->
                   IF a \in 1..3 THEN market_household(c, a) ELSE NewHousehold],
        !.houses = hs,
        !.households = <<1, 2, 3>>,
        !.realtor.locality_houses = hs,
        !.ticks = 1,
        !.nhouse = Len(hs),
        !.nhh = 3]

MarketInit ==
    \E c \in MarketDraws :
        LET w == market_world(c) IN
        /\ house = w.house
        /\ hh = w.hh
        /\ houses = w.houses
        /\ households = w.households
        /\ realtor = w.realtor
        /\ monitors = w.monitors
        /\ ticks = w.ticks
        /\ nhouse = w.nhouse
        /\ nhh = w.nhh
        /\ valued = w.valued
        /\ pc = "trade_houses"
        /\ err = "none"
        /\ calls = <<>>

\* one call of trade_houses on the market
TradeOnMarket ==
    /\ pc = "trade_houses"
    /\ \E w \in trade_houses(World) :
          Becomes(Logged(World, w, "trade_houses", 0), "traded")

MarketNext == TradeOnMarket

MarketSpec == MarketInit /\ [][MarketNext]_vars

---------------------------------------------------------------------------
(* The classifier on a constructed population.  Household 1 owns and       *)
(* occupies house 1 and lets houses 2 and 3; households 2 and 3 are its    *)
(* tenants (house 3 may instead be vacant and listed for rent); household  *)
(* 4 owns and occupies house 4.  The loans, rents, savings and             *)
(* propensities are drawn so that every cohort of                          *)
(* manage_market_participation has members, alone and together.            *)

\* the income of every household, the sale price of every house, the
\* repayment of a loan that a landlord with two tenants cannot pay, the
\* repayment of the loan of household 4 when it can and when it cannot pay,
\* and the capital of a household that has saved
ClassifyIncome == 100
ClassifyPrice == 40
ClassifyLoan == 115
ClassifyLightLoan == 30
ClassifyHeavyLoan == 90
ClassifySavings == 30

\* the rent of a tenant that can pay it and of one that cannot
ClassifyRents == [low |-> 20, high |-> 90]

ClassifyDraws ==
    [ repayment : [1..3 -> {0, ClassifyLoan}],
      rent : [2..3 -> {"low", "high"}],
      savings : [1..3 -> {0, ClassifySavings}],
      propensity : [1..3 -> PropensityLevels],
      vacant : BOOLEAN,
      heavy : BOOLEAN ]

classify_house(c, h) ==
    IF h \in {1, 4}
    THEN [NewHouse EXCEPT !.my_type = "mortgage", !.end_of_life = LongLife,
                          !.for_sale = FALSE, !.my_owner = h, !.my_occupier = h,
                          !.sale_price = ClassifyPrice, !.plot = h]
    ELSE IF h = 3 /\ c.vacant
    THEN [NewHouse EXCEPT !.my_type = "rent", !.end_of_life = LongLife,
                          !.for_sale = FALSE, !.for_rent = TRUE, !.my_owner = 1,
                          !.sale_price = ClassifyPrice,
                          !.rent_price = ClassifyRents[c.rent[h]], !.plot = h]
    ELSE [NewHouse EXCEPT !.my_type = "rent", !.end_of_life = LongLife,
                          !.for_sale = FALSE, !.my_owner = 1, !.my_occupier = h,
                          !.sale_price = ClassifyPrice,
                          !.rent_price = ClassifyRents[c.rent[h]], !.plot = h]

classify_household(c, a) ==
    IF a = 1
    THEN [NewHousehold EXCEPT
            !.my_house = 1,
            !.income = ClassifyIncome,
            !.capital = c.savings[1],
            !.propensity = c.propensity[1],
            !.my_type = "mortgage",
            !.my_ownership = <<1, 2, 3>>,
            !.mortgage = [i \in 1..3 |-> MortgageFor(c.repayment[i])],
            !.mortgage_initial = [i \in 1..3 |-> MortgageFor(ClassifyLoan)],
            !.repayment = [i \in 1..3 |-> c.repayment[i]],
            !.income_rent = [i \in 1..3 |->
                               IF i = 1 \/ (i = 3 /\ c.vacant) THEN 0
                               ELSE ClassifyRents[c.rent[i]]],
            !.rate = [i \in 1..3 |-> interest_per_tick],
            !.rate_duration = [i \in 1..3 |-> max_rate_duration_BTL * ticks_per_year],
            !.mortgage_duration = [i \in 1..3 |-> mortgage_duration * ticks_per_year]]
    ELSE IF a = 4
    THEN LET r == IF c.heavy THEN ClassifyHeavyLoan ELSE ClassifyLightLoan IN
         [NewHousehold EXCEPT
            !.my_house = 4,
            !.income = ClassifyIncome,
            !.capital = ClassifySavings,
            !.propensity = c.propensity[1],
            !.my_type = "mortgage",
            !.my_ownership = <<4>>,
            !.mortgage = <<MortgageFor(r)>>,
            !.mortgage_initial = <<MortgageFor(ClassifyHeavyLoan)>>,
            !.repayment = <<r>>,
            !.income_rent = <<0>>,
            !.rate = <<interest_per_tick>>,
            !.rate_duration = <<max_rate_duration_M * ticks_per_year>>,
            !.mortgage_duration = <<mortgage_duration * ticks_per_year>>]
    ELSE IF a = 3 /\ c.vacant
    THEN [NewHousehold EXCEPT
            !.income = ClassifyIncome,
            !.capital = c.savings[a],
            !.propensity = c.propensity[a],
            !.my_type = "rent",
            !.on_market = TRUE,
            !.on_market_type = "rent"]
    ELSE [NewHousehold EXCEPT
            !.my_house = a,
            !.my_rent = ClassifyRents[c.rent[a]],
            !.income = ClassifyIncome,
            !.capital = c.savings[a],
            !.propensity = c.propensity[a],
            !.my_type = "rent"]

\* the model that holds the population c at tick 1
classify_world(c) ==
    [EmptyWorld EXCEPT
        !.house = [h \in HouseIds |->
                      IF h \in 1..4 THEN classify_house(c, h) ELSE NewHouse],
        !.hh = [a \in HhIds |->
                   IF a \in 1..4 THEN classify_household(c, a) ELSE NewHousehold],
        !.houses = <<1, 2, 3, 4>>,
        !.households = <<1, 2, 3, 4>>,
        !.realtor.locality_houses = <<1, 2, 3, 4>>,
        !.ticks = 1,
        !.nhouse = 4,
        !.nhh = 4]

ClassifyInit ==
    \E c \in ClassifyDraws :
        LET w == classify_world(c) IN
        /\ house = w.house
        /\ hh = w.hh
        /\ houses = w.houses
        /\ households = w.households
        /\ realtor = w.realtor
        /\ monitors = w.monitors
        /\ ticks = w.ticks
        /\ nhouse = w.nhouse
        /\ nhh = w.nhh
        /\ valued = w.valued
        /\ pc = "manage_market_participation"
        /\ err = "none"
        /\ calls = <<>>

\* one call of manage_market_participation on the population
ClassifyPopulation ==
    /\ pc = "manage_market_participation"
    /\ \E w \in manage_market_participation(World) :
          Becomes(Logged(World, w, "manage_market_participation", 0),
                  "classified")

ClassifyNext == ClassifyPopulation

ClassifySpec == ClassifyInit /\ [][ClassifyNext]_vars

---------------------------------------------------------------------------
(* update_owners over several ticks on a population of owners whose loans  *)
(* outlast a tick: household 1 lives in house 1 and lets houses 2 and 3 to *)
(* households 2 and 3, household 4 lives in its own house 4.  Every loan   *)
(* is paid off, small, or large, its fixed-rate term is over or not, and   *)
(* the loans of an owner were locked at the prevailing rate or at an       *)
(* earlier one                                                             *)

OwnersTicks == 3
OwnersIncome == 100
OwnersRent == 20
OwnersPrice == 120
OwnersLoan == 100
OwnersSmallLoan == 50
OwnersRepayment == 40
\* the per-tick rate a record was locked at when inputs["interest_rate"] has
\* been changed since
OwnersOldRate == 2

\* record 4 is the loan of household 4, records 1 to 3 those of household 1
OwnersDraws ==
    [ balance : [1..4 -> {0, OwnersSmallLoan, OwnersLoan}],
      term : [1..4 -> {0, max_rate_duration_BTL * ticks_per_year}],
      locked : [{1, 4} -> {interest_per_tick, OwnersOldRate}] ]

owners_house(h) ==
    IF h \in {1, 4}
    THEN [NewHouse EXCEPT !.my_type = "mortgage", !.end_of_life = LongLife,
                          !.for_sale = FALSE, !.my_owner = h, !.my_occupier = h,
                          !.sale_price = OwnersPrice, !.plot = h]
    ELSE [NewHouse EXCEPT !.my_type = "rent", !.end_of_life = LongLife,
                          !.for_sale = FALSE, !.my_owner = 1, !.my_occupier = h,
                          !.sale_price = OwnersPrice, !.rent_price = OwnersRent,
                          !.plot = h]

owners_household(c, a) ==
    LET records == IF a = 1 THEN <<1, 2, 3>> ELSE <<4>>
        n == Len(records)
    IN IF a \in {1, 4}
       THEN [NewHousehold EXCEPT
               !.my_house = a,
               !.income = OwnersIncome,
               !.my_type = "mortgage",
               !.my_ownership = records,
               !.mortgage = [i \in 1..n |-> c.balance[records[i]]],
               !.mortgage_initial = [i \in 1..n |-> OwnersLoan],
               !.repayment = [i \in 1..n |->
                                 IF c.balance[records[i]] = 0 THEN 0
                                 ELSE OwnersRepayment],
               !.income_rent = [i \in 1..n |-> IF i = 1 THEN 0 ELSE OwnersRent],
               !.rate = [i \in 1..n |-> c.locked[a]],
               !.rate_duration = [i \in 1..n |-> c.term[records[i]]],
               !.mortgage_duration = [i \in 1..n |-> mortgage_duration * ticks_per_year]]
       ELSE [NewHousehold EXCEPT
               !.my_house = a,
               !.my_rent = OwnersRent,
               !.income = OwnersIncome,
               !.my_type = "rent"]

\* the model that holds the owners c, before its first tick
owners_world(c) ==
    LET w == [EmptyWorld EXCEPT
                !.house = [h \in HouseIds |->
                              IF h \in 1..4 THEN owners_house(h) ELSE NewHouse],
                !.hh = [a \in HhIds |->
                           IF a \in 1..4 THEN owners_household(c, a)
                           ELSE NewHousehold],
                !.houses = <<1, 2, 3, 4>>,
                !.households = <<1, 2, 3, 4>>,
                !.realtor.locality_houses = <<1, 2, 3, 4>>,
                !.nhouse = 4,
                !.nhh = 4]
    IN update_surplus_income(w, 1)

OwnersInit ==
    \E c \in OwnersDraws :
        LET w == owners_world(c) IN
        /\ house = w.house
        /\ hh = w.hh
        /\ houses = w.houses
        /\ households = w.households
        /\ realtor = w.realtor
        /\ monitors = w.monitors
        /\ ticks = w.ticks
        /\ nhouse = w.nhouse
        /\ nhh = w.nhh
        /\ valued = w.valued
        /\ pc = "update_globals"
        /\ err = "none"
        /\ calls = <<>>

\* the first phase of a tick in which nobody trades
OwnersGlobals ==
    /\ pc = "update_globals"
    /\ ticks < OwnersTicks
    /\ Becomes(update_globals(World), "update_owners")

\* the last phase of that tick
OwnersRepay ==
    /\ pc = "update_owners"
    /\ \E w \in update_owners(World) :
          Becomes(Logged(World, w, "update_owners", 0), "update_globals")

OwnersNext ==
    \/ OwnersGlobals
    \/ OwnersRepay

OwnersSpec == OwnersInit /\ [][OwnersNext]_vars

---------------------------------------------------------------------------
(* One call of step() on a market, phase by phase.  The first entry of the *)
(* log is the call of step(): it holds the state in which step() began and *)
(* is kept until the call ends                                             *)

\* the markets on which step() is called: every listed house at the inner
\* price, household 1 without reserve
StepDraws ==
    { c \in MarketDraws :
        /\ \A h \in MarketListings : c.price[h] = "inner"
        /\ c.reserve = 0 }

StepInit ==
    \E c \in StepDraws :
        LET w == market_world(c) IN
        /\ house = w.house
        /\ hh = w.hh
        /\ houses = w.houses
        /\ households = w.households
        /\ realtor = w.realtor
        /\ monitors = w.monitors
        /\ ticks = w.ticks
        /\ nhouse = w.nhouse
        /\ nhh = w.nhh
        /\ valued = w.valued
        /\ pc = "update_globals"
        /\ err = "none"
        /\ calls = <<>>

\* the outcome w of a phase of the call of step() that is under way
InStep(w) == [w EXCEPT !.calls = << calls[1] >> \o @]

\* lines 458-459: step() begins
StepGlobals ==
    /\ pc = "update_globals"
    /\ calls = <<>>
    /\ Becomes(Logged(World, update_globals(World), "step", 0),
               "manage_population_dynamics")

StepPopulation ==
    /\ pc = "manage_population_dynamics"
    /\ \E w \in manage_population_dynamics(World) :
          Becomes(InStep(w), "manage_market_participation")

StepParticipation ==
    /\ pc = "manage_market_participation"
    /\ \E w \in manage_market_participation(World) :
          Becomes(InStep(w), "construct_houses")

StepConstruct ==
    /\ pc = "construct_houses"
    /\ \E w \in construct_houses(World) : Becomes(InStep(w), "trade_houses")

StepTrade ==
    /\ pc = "trade_houses"
    /\ \E w \in trade_houses(World) :
          Becomes(InStep(w), "manage_outdated_records")

StepRecords ==
    /\ pc = "manage_outdated_records"
    /\ Becomes(InStep(manage_outdated_records(World)), "remove_offers")

StepOffers ==
    /\ pc = "remove_offers"
    /\ Becomes(InStep(remove_offers(World)), "demolish_houses")

StepDemolish ==
    /\ pc = "demolish_houses"
    /\ Becomes(InStep(demolish_houses(World)), "decay_prices")

StepDecay ==
    /\ pc = "decay_prices"
    /\ Becomes(InStep(decay_prices(World)), "update_owners")

\* lines 478-481: step() returns
StepOwners ==
    /\ pc = "update_owners"
    /\ \E w \in update_owners(World) : Becomes(InStep(w), "stepped")

StepNext ==
    \/ StepGlobals
    \/ StepPopulation
    \/ StepParticipation
    \/ StepConstruct
    \/ StepTrade
    \/ StepRecords
    \/ StepOffers
    \/ StepDemolish
    \/ StepDecay
    \/ StepOwners

StepSpec == StepInit /\ [][StepNext]_vars

---------------------------------------------------------------------------
(* Two ticks of step() on a market in which a tenant moves.  Household 1   *)
(* owns and occupies house 1 and lets house 2 to household 2; house 3 is a *)
(* vacant listing, for rent (owned by household 1) or for sale (unowned).  *)
(* Household 2 may be looking for another house to rent or for one to buy. *)
(* The households that enter in the two ticks are the other bidders.       *)

ListingDraws ==
    [ rent : {RentPrices.lower, RentPrices.inner},
      kind : {"sale", "rent"},
      market : {"none", "mortgage", "rent"},
      capital : {MarketCapital, MarketWealth} ]

listing_house(c, h) ==
    IF h = 1
    THEN [NewHouse EXCEPT !.my_type = "mortgage", !.end_of_life = LongLife,
                          !.for_sale = FALSE, !.my_owner = 1, !.my_occupier = 1,
                          !.sale_price = SalePrices.upper, !.plot = 1]
    ELSE IF h = 2
    THEN [NewHouse EXCEPT !.my_type = "rent", !.end_of_life = LongLife,
                          !.for_sale = FALSE, !.my_owner = 1, !.my_occupier = 2,
                          !.sale_price = SalePrices.upper,
                          !.rent_price = c.rent, !.plot = 2]
    ELSE IF c.kind = "sale"
    THEN [NewHouse EXCEPT !.my_type = "mortgage", !.end_of_life = LongLife,
                          !.for_sale = TRUE, !.my_owner = 0,
                          !.sale_price = SalePrices.inner, !.plot = 3]
    ELSE [NewHouse EXCEPT !.my_type = "rent", !.end_of_life = LongLife,
                          !.for_sale = FALSE, !.for_rent = TRUE, !.my_owner = 1,
                          !.sale_price = SalePrices.upper,
                          !.rent_price = RentPrices.upper, !.plot = 3]

listing_household(c, a) ==
    LET own == IF c.kind = "rent" THEN <<1, 2, 3>> ELSE <<1, 2>>
        n == Len(own)
    IN IF a = 1
       THEN [NewHousehold EXCEPT
               !.my_house = 1,
               !.income = MarketIncome,
               !.my_type = "mortgage",
               !.my_ownership = own,
               !.mortgage = [i \in 1..n |-> market_loan(own[i])],
               !.mortgage_initial = [i \in 1..n |-> market_loan(own[i]) + 1],
               !.repayment = [i \in 1..n |-> RepaymentFor(market_loan(own[i]))],
               !.income_rent = [i \in 1..n |-> IF own[i] = 2 THEN c.rent ELSE 0],
               !.rate = [i \in 1..n |-> interest_per_tick],
               !.rate_duration = [i \in 1..n |-> max_rate_duration_BTL * ticks_per_year],
               !.mortgage_duration = [i \in 1..n |-> mortgage_duration * ticks_per_year]]
       ELSE [NewHousehold EXCEPT
               !.my_house = 2,
               !.my_rent = c.rent,
               !.income = MarketIncome,
               !.capital = c.capital,
               !.my_type = "rent",
               !.on_market = (c.market # "none"),
               !.on_market_type = c.market]

\* the model that holds the market c before its first tick
listing_world(c) ==
    LET w == [EmptyWorld EXCEPT
                !.house = [h \in HouseIds |->
                              IF h \in 1..3 THEN listing_house(c, h) ELSE NewHouse],
                !.hh = [a \in HhIds |->
                           IF a \in 1..2 THEN listing_household(c, a)
                           ELSE NewHousehold],
                !.houses = <<1, 2, 3>>,
                !.households = <<1, 2>>,
                !.realtor.locality_houses = <<1, 2, 3>>,
                !.nhouse = 3,
                !.nhh = 2]
    IN update_surplus_income(w, 1)

ListingInit ==
    \E c \in ListingDraws :
        LET w == listing_world(c) IN
        /\ house = w.house
        /\ hh = w.hh
        /\ houses = w.houses
        /\ households = w.households
        /\ realtor = w.realtor
        /\ monitors = w.monitors
        /\ ticks = w.ticks
        /\ nhouse = w.nhouse
        /\ nhh = w.nhh
        /\ valued = w.valued
        /\ pc = "update_globals"
        /\ err = "none"
        /\ calls = <<>>

\* the phases of step(), as in Spec
ListingSpec == ListingInit /\ [][Next]_vars

---------------------------------------------------------------------------
(* Properties of the engine                                                *)

\* the per-house financial sequences of a household
FinancialRecords ==
    { "mortgage", "mortgage_initial", "mortgage_duration", "repayment",
      "income_rent", "rate", "rate_duration" }

\* the calls of op that the last phase made
CallsOf(op) == { calls[k] : k \in { j \in DOMAIN calls : calls[j].op = op } }

\* the house h is on the market in the snapshot s
Listed(s, h) == s.house[h].for_sale \/ s.house[h].for_rent

\* step() has returned at least once and the model is between two ticks
EndOfTick == pc = "update_globals" /\ ticks > 0

\* C1: at the end of every tick every household has as many entries in each
\* of its financial sequences as it has houses in my_ownership.
C1_ParallelLengths ==
    EndOfTick =>
        \A k \in DOMAIN households :
            \A f \in FinancialRecords :
                Len(hh[households[k]][f]) = Len(hh[households[k]].my_ownership)

\* the call c evicts a mortgage-kind household that lives in a house
EvictsOwner(c) ==
    /\ c.op = "evict"
    /\ c.pre.hh[c.who].my_type = "mortgage"
    /\ c.pre.hh[c.who].my_house # 0

\* C6: after evict of a mortgage-kind owner its my_ownership and all seven
\* financial sequences are empty.
C6_EvictClearsRecords ==
    \A c \in CallsOf("evict") :
        (EvictsOwner(c) /\ ~c.raised) =>
            /\ c.post.hh[c.who].my_ownership = <<>>
            /\ \A f \in FinancialRecords : c.post.hh[c.who][f] = <<>>

\* the houses of the sequence own other than h
Others(own, h) == { own[i] : i \in DOMAIN own } \ {h}

\* the call c evicts an owner who occupies its primary house and whose every
\* further house is of type rent and occupied by a tenant living there
EvictsLandlord(c) ==
    LET x == c.pre.hh[c.who] IN
    /\ EvictsOwner(c)
    /\ InSeq(x.my_ownership, x.my_house)
    /\ c.pre.house[x.my_house].my_occupier = c.who
    /\ Others(x.my_ownership, x.my_house) # {}
    /\ \A h \in Others(x.my_ownership, x.my_house) :
           /\ c.pre.house[h].my_type = "rent"
           /\ c.pre.house[h].my_occupier \notin {0, c.who}
           /\ c.pre.hh[c.pre.house[h].my_occupier].my_house = h

\* C5: the eviction of an owner who occupies its primary house and lets every
\* other house leaves all its houses listed without owner and occupier, the
\* owner without ownership and house, and every tenant without house and on
\* the rent market.
C5_EvictionCascade ==
    \A c \in CallsOf("evict") :
        EvictsLandlord(c) =>
            LET x == c.pre.hh[c.who] IN
            /\ ~c.raised
            /\ \A i \in DOMAIN x.my_ownership :
                   /\ Listed(c.post, x.my_ownership[i])
                   /\ c.post.house[x.my_ownership[i]].my_owner = 0
                   /\ c.post.house[x.my_ownership[i]].my_occupier = 0
            /\ c.post.hh[c.who].my_ownership = <<>>
            /\ c.post.hh[c.who].my_house = 0
            /\ \A h \in Others(x.my_ownership, x.my_house) :
                   LET t == c.pre.house[h].my_occupier IN
                   /\ c.post.hh[t].my_house = 0
                   /\ c.post.hh[t].on_market
                   /\ c.post.hh[t].on_market_type = "rent"

\* a landlord with at least one tenant has been evicted
C5_Witness ==
    \E c \in CallsOf("evict") : EvictsLandlord(c) /\ ~c.raised

\* the call c evicts a rent-kind household that occupies the rent house it
\* lives in
EvictsTenant(c) ==
    LET x == c.pre.hh[c.who] IN
    /\ c.op = "evict"
    /\ x.my_type = "rent"
    /\ x.my_house # 0
    /\ c.pre.house[x.my_house].my_type = "rent"
    /\ c.pre.house[x.my_house].my_occupier = c.who

\* the households after the eviction of the tenant of h: the tenancy and
\* the landlord's rent income for h are cleared, the rest is kept
TenantEvicted(c) ==
    LET x == c.pre.hh[c.who]
        h == x.my_house
        landlord == c.pre.house[h].my_owner
        cleared == [c.pre.hh EXCEPT ![c.who].my_house = 0,
                                    ![c.who].my_rent = 0,
                                    ![c.who].homeless = 0]
    IN IF landlord = 0 THEN cleared
       ELSE [cleared EXCEPT ![landlord].income_rent[
                IndexOf(c.pre.hh[landlord].my_ownership, h)] = 0]

\* the houses after the eviction of the tenant of h: h is vacant and listed
\* for rent, the rest is kept
TenancyListed(c) ==
    LET h == c.pre.hh[c.who].my_house IN
    [c.pre.house EXCEPT ![h].my_occupier = 0,
                        ![h].for_rent = TRUE,
                        ![h].for_sale = FALSE,
                        ![h].offered_to = 0,
                        ![h].date_for_rent = c.now]

\* C7: the eviction of a rent-kind tenant clears the tenant's my_house and
\* my_rent, vacates the house and lists it for rent, sets the landlord's
\* income_rent entry of that house to 0, and leaves every other field of
\* every house and household as it was.
C7_TenantEvictionFrame ==
    \A c \in CallsOf("evict") :
        EvictsTenant(c) =>
            /\ ~c.raised
            /\ c.post.hh = TenantEvicted(c)
            /\ c.post.house = TenancyListed(c)

\* a tenant whose landlord collected a rent for the house has been evicted
C7_Witness ==
    \E c \in CallsOf("evict") :
        /\ EvictsTenant(c)
        /\ c.pre.house[c.pre.hh[c.who].my_house].my_owner # 0
        /\ c.post.hh # c.pre.hh
        /\ \E a \in DOMAIN c.pre.hh :
              /\ a # c.who
              /\ c.pre.hh[a].income_rent # c.post.hh[a].income_rent

\* the call c forces a sale on a household that owns and occupies its
\* residence and owns at least one other house
ForcesSale(c) ==
    LET x == c.pre.hh[c.who] IN
    /\ c.op = "force_sell"
    /\ x.my_house # 0
    /\ InSeq(x.my_ownership, x.my_house)
    /\ c.pre.house[x.my_house].my_owner = c.who
    /\ c.pre.house[x.my_house].my_occupier = c.who
    /\ Others(x.my_ownership, x.my_house) # {}

\* C8: after force_sell the household still owns and occupies its residence,
\* the residence is not listed, and exactly one other house of its portfolio
\* has become listed.
C8_ForcedSaleKeepsResidence ==
    \A c \in CallsOf("force_sell") :
        (ForcesSale(c) /\ ~c.raised) =>
            LET x == c.pre.hh[c.who]
                r == x.my_house
            IN /\ c.post.hh[c.who].my_house = r
               /\ InSeq(c.post.hh[c.who].my_ownership, r)
               /\ c.post.house[r].my_owner = c.who
               /\ c.post.house[r].my_occupier = c.who
               /\ ~Listed(c.post, r)
               /\ Cardinality({ h \in Others(x.my_ownership, r) :
                                  Listed(c.post, h) /\ ~Listed(c.pre, h) }) = 1

\* C9: no house is for sale and for rent at the same time.
C9_OneListingKind ==
    \A h \in DOMAIN house : ~(house[h].for_sale /\ house[h].for_rent)

\* a house that had been listed for sale has an owner who lists it for rent
C9_Witness ==
    \E k \in DOMAIN houses :
        LET x == house[houses[k]] IN
        /\ x.for_rent
        /\ ~x.for_sale
        /\ x.my_owner # 0
        /\ x.date_for_sale > 0
        /\ x.date_for_rent >= x.date_for_sale

\* C10: a house with a pending offer is for sale or for rent.
C10_OfferedHouseListed ==
    \A k \in DOMAIN houses :
        house[houses[k]].offered_to # 0 =>
            (house[houses[k]].for_sale \/ house[houses[k]].for_rent)

\* spec section 4.5: canSettle(household, originalBidder) unfolded once, V
\* holding the values of the recursive calls
canSettleStep(s, V, household, originalBidder) ==
    LET x == s.hh[household]
        seller == s.house[x.made_offer_on].my_owner
        occupant == s.house[x.made_offer_on].my_occupier
    IN IF x.made_offer_on = 0 \/ ~x.on_market THEN "False"
       ELSE IF x.on_market_type \in {"mortgage", "buy-to-let"}
       THEN (IF seller = 0 THEN "True"
             ELSE IF Len(s.hh[seller].my_ownership) > 1 THEN "True"
             ELSE IF seller = household THEN "True"
             ELSE IF seller = originalBidder THEN "True"
             ELSE V[seller])
       ELSE IF x.on_market_type = "rent"
       THEN (IF occupant = 0 THEN "True"
             ELSE IF occupant = originalBidder THEN "True"
             ELSE V[occupant])
       ELSE "False"

\* the values of canSettle(_, originalBidder) that n unfoldings define
RECURSIVE canSettleValues(_, _, _)
canSettleValues(s, originalBidder, n) ==
    IF n = 0 THEN [a \in DOMAIN s.hh |-> "Undefined"]
    ELSE LET V == canSettleValues(s, originalBidder, n - 1)
         IN [a \in DOMAIN s.hh |-> canSettleStep(s, V, a, originalBidder)]

\* canSettle(household, originalBidder): a recursion that ends does so within
\* as many unfoldings as there are households; one that does not end defines
\* no value
canSettle(s, household, originalBidder) ==
    canSettleValues(s, originalBidder, Cardinality(DOMAIN s.hh))[household]

\* C4: follow_chain(household, first_household) returns the value of
\* canSettle(household, first_household) on every book of offers, owners and
\* occupiers; it returns no value exactly when the recursion of canSettle does
\* not end.
C4_FollowChainIsCanSettle ==
    \A c \in CallsOf("follow_chain") :
        /\ c.result \in {"True", "False"} =>
              c.result = canSettle(c.pre, c.who, c.first)
        /\ canSettle(c.pre, c.who, c.first) \in {"True", "False"} =>
              c.result = canSettle(c.pre, c.who, c.first)

\* follow_chain answered True after asking a seller that owns one house and
\* is neither the bidder nor the first household
C4_Witness ==
    \E c \in CallsOf("follow_chain") :
        LET x == c.pre.hh[c.who]
            seller == c.pre.house[x.made_offer_on].my_owner
        IN /\ c.result = "True"
           /\ x.made_offer_on # 0
           /\ x.on_market_type = "mortgage"
           /\ seller \notin {0, c.who, c.first}
           /\ Len(c.pre.hh[seller].my_ownership) = 1

\* in the snapshot s every household of the model owns and occupies exactly
\* one house, is on the mortgage market, and bids for the house of another,
\* no two for the same house
RotatingChain(s) ==
    /\ \A k \in DOMAIN households :
          LET x == s.hh[households[k]] IN
          /\ x.my_house # 0
          /\ x.my_ownership = << x.my_house >>
          /\ s.house[x.my_house].my_owner = households[k]
          /\ s.house[x.my_house].my_occupier = households[k]
          /\ x.on_market
          /\ x.on_market_type = "mortgage"
          /\ x.made_offer_on # 0
          /\ x.made_offer_on # x.my_house
          /\ s.house[x.made_offer_on].my_owner # 0
          /\ s.house[x.made_offer_on].offered_to = households[k]
    /\ \A j, k \in DOMAIN households :
          j # k => /\ s.hh[households[j]].made_offer_on
                        # s.hh[households[k]].made_offer_on
                   /\ s.hh[s.house[s.hh[households[j]].made_offer_on].my_owner]
                        .made_offer_on # s.hh[households[j]].my_house

Completed(c, a) ==
    /\ c.pre.hh[a].made_offer_on # 0
    /\ c.post.hh[a].my_house = c.pre.hh[a].made_offer_on
    /\ c.post.house[c.post.hh[a].my_house].my_occupier = a

\* the household a gave up its only house, or its tenancy, in the call c
GaveUpHome(c, a) ==
    LET h == c.pre.hh[a].my_house IN
    /\ h # 0
    /\ c.pre.house[h].my_occupier = a
    /\ \/ /\ c.pre.hh[a].my_ownership = << h >>
          /\ c.post.house[h].my_owner # a
       \/ /\ c.pre.hh[a].my_ownership = <<>>
          /\ c.post.house[h].my_occupier # a

\* the household a is left with a my_house that another household has come
\* to occupy or own in the call c
Dangling(c, a) ==
    LET h == c.post.hh[a].my_house IN
    /\ h # 0
    /\ h = c.pre.hh[a].my_house
    /\ \/ /\ c.pre.house[h].my_occupier = a
          /\ c.post.house[h].my_occupier \notin {0, a}
       \/ /\ c.pre.house[h].my_owner = a
          /\ c.post.house[h].my_owner \notin {0, a}

C11_ListedHouseVacant ==
    \A k \in DOMAIN houses :
        Listed(World, houses[k]) => house[houses[k]].my_occupier = 0

\* a house of the model is listed after the eviction of the household that
\* occupied it
C11_Witness ==
    \E c \in CallsOf("evict") :
        LET h == c.pre.hh[c.who].my_house IN
        /\ h # 0
        /\ c.pre.house[h].my_occupier = c.who
        /\ ~Listed(c.pre, h)
        /\ InSeq(houses, h)
        /\ Listed(World, h)

\* the call c of the matching loop placed an offer for its bidder
PlacesOffer(c) ==
    /\ c.op = "make_offer"
    /\ ~c.raised
    /\ c.post.hh[c.who].made_offer_on # c.pre.hh[c.who].made_offer_on

\* the price a bidder of the market kind m looks at
AskedPrice(s, h, m) ==
    IF m = "rent" THEN s.house[h].rent_price ELSE s.house[h].sale_price

\* C12: a house holds the offer of at most one household and a household
\* holds at most one offer: every offer of the matching loop is placed on a
\* house that held no offer by a bidder that held no offer, and no two
\* households hold an offer on the same house.
C12_OneOfferPerHouseAndBidder ==
    /\ \A c \in CallsOf("make_offer") :
          PlacesOffer(c) =>
              LET h == c.post.hh[c.who].made_offer_on IN
              /\ c.pre.house[h].offered_to = 0
              /\ c.pre.hh[c.who].made_offer_on = 0
              /\ c.post.house[h].offered_to = c.who
              /\ \A g \in DOMAIN c.post.house :
                    g # h => c.post.house[g].offered_to = c.pre.house[g].offered_to
    /\ \A c \in CallsOf("make_offer") :
          \A a, b \in DOMAIN c.post.hh :
              (a # b /\ c.post.hh[a].made_offer_on # 0)
                  => c.post.hh[a].made_offer_on # c.post.hh[b].made_offer_on
    /\ \A j, k \in DOMAIN households :
          (j # k /\ hh[households[j]].made_offer_on # 0)
              => hh[households[j]].made_offer_on # hh[households[k]].made_offer_on

\* a bidder placed its offer on a cheaper house while a dearer listing that
\* it looks at held the offer of another bidder
C12_Witness ==
    \E c \in CallsOf("make_offer") :
        /\ PlacesOffer(c)
        /\ \E g \in DOMAIN c.pre.house :
              LET h == c.post.hh[c.who].made_offer_on
                  m == c.pre.hh[c.who].on_market_type
              IN /\ c.pre.house[g].offered_to \notin {0, c.who}
                 /\ c.pre.house[g].for_sale = c.pre.house[h].for_sale
                 /\ c.pre.house[g].for_rent = c.pre.house[h].for_rent
                 /\ AskedPrice(c.pre, g, m) > AskedPrice(c.pre, h, m)

Settlements == SelectSeq(calls, LAMBDA c : c.op = "settle")

C14_MoneyNonNegative ==
    /\ \A k \in DOMAIN households :
          LET a == hh[households[k]] IN
          /\ a.capital >= 0
          /\ \A i \in DOMAIN a.mortgage : a.mortgage[i] >= 0
          /\ \A i \in DOMAIN a.repayment : a.repayment[i] >= 0
    /\ \A k \in DOMAIN houses :
          house[houses[k]].sale_price >= 0 /\ house[houses[k]].rent_price >= 0

\* the settlements that committed a transaction
Committed(c) == c.op = "settle" /\ c.result = "True" /\ ~c.raised

\* the settlements that committed a sale, and the house and the seller of it
CommittedSale(c) ==
    Committed(c) /\ c.pre.hh[c.who].on_market_type \in {"mortgage", "buy-to-let"}

SoldHouse(c) == c.pre.hh[c.who].made_offer_on

SellerOf(c) == c.pre.house[SoldHouse(c)].my_owner

FinancialLists ==
    {"mortgage", "mortgage_initial", "repayment", "income_rent",
     "rate", "rate_duration", "mortgage_duration"}

\* C15: a committed sale with a seller raises the seller's capital by the
\* sale price less the outstanding mortgage of the sold house, and removes
\* the entry of that house, and no other, from my_ownership and from every
\* financial list of the seller, the other entries keeping their order.
C15_SellerSettled ==
    \A c \in CallsOf("settle") :
        (CommittedSale(c) /\ SellerOf(c) # 0) =>
            LET s == SellerOf(c)
                h == SoldHouse(c)
                i == IndexOf(c.pre.hh[s].my_ownership, h)
            IN /\ i # 0
               /\ c.post.hh[s].capital =
                      c.pre.hh[s].capital + c.pre.house[h].sale_price
                          - c.pre.hh[s].mortgage[i]
               /\ c.post.hh[s].my_ownership = DelAt(c.pre.hh[s].my_ownership, i)
               /\ \A f \in FinancialLists :
                      c.post.hh[s][f] = DelAt(c.pre.hh[s][f], i)

\* a landlord of three houses sells the second of them for less than the loan
\* outstanding on it
C15_Witness ==
    \E c \in CallsOf("settle") :
        /\ CommittedSale(c) /\ SellerOf(c) # 0
        /\ Len(c.pre.hh[SellerOf(c)].my_ownership) >= 3
        /\ IndexOf(c.pre.hh[SellerOf(c)].my_ownership, SoldHouse(c)) = 2
        /\ c.pre.hh[SellerOf(c)].mortgage[2] > c.pre.house[SoldHouse(c)].sale_price

\* the larger and the smaller of two amounts
Max(a, b) == IF a >= b THEN a ELSE b

\* C16: a committed purchase is paid from the buyer's capital first: the new
\* mortgage is max(price - capital, 0), the capital left is
\* max(capital - price, 0), and every financial list of the buyer gets
\* exactly one more record, the mortgage at the end of the mortgage list.
C16_BuyerPaysFromCapital ==
    \A c \in CallsOf("settle") :
        CommittedSale(c) =>
            LET b == c.who
                price == c.pre.house[SoldHouse(c)].sale_price
                capital == c.pre.hh[b].capital
            IN /\ c.post.hh[b].capital = Max(capital - price, 0)
               /\ c.post.hh[b].mortgage =
                      Append(c.pre.hh[b].mortgage, Max(price - capital, 0))
               /\ \A f \in FinancialLists :
                      /\ Len(c.post.hh[b][f]) = Len(c.pre.hh[b][f]) + 1
                      /\ SubSeq(c.post.hh[b][f], 1, Len(c.pre.hh[b][f]))
                             = c.pre.hh[b][f]

\* one buyer pays the whole price from its capital and keeps some, another
\* borrows and is left with none
C16_Witness ==
    /\ \E c \in CallsOf("settle") :
          /\ CommittedSale(c)
          /\ 0 < c.pre.house[SoldHouse(c)].sale_price
          /\ c.pre.house[SoldHouse(c)].sale_price < c.pre.hh[c.who].capital
    /\ \E c \in CallsOf("settle") :
          /\ CommittedSale(c)
          /\ 0 < c.pre.hh[c.who].capital
          /\ c.pre.hh[c.who].capital < c.pre.house[SoldHouse(c)].sale_price

\* the settlements that committed a tenancy
CommittedTenancy(c) == Committed(c) /\ c.pre.hh[c.who].on_market_type = "rent"

\* C17: a committed rent transaction sets the tenant's my_rent and the
\* landlord's income_rent entry of the house to the listed rent price, makes
\* the tenant the occupier of the house and takes the house off the market;
\* the residence the tenant leaves, if any, has no occupier and is for rent.
C17_TenancySettled ==
    \A c \in CallsOf("settle") :
        CommittedTenancy(c) =>
            LET tenant == c.who
                new_house == c.pre.hh[tenant].made_offer_on
                old_house == c.pre.hh[tenant].my_house
                landlord == c.pre.house[new_house].my_owner
                rent == c.pre.house[new_house].rent_price
            IN /\ c.post.hh[tenant].my_rent = rent
               /\ landlord # 0
               /\ LET i == IndexOf(c.post.hh[landlord].my_ownership, new_house)
                  IN i # 0 /\ c.post.hh[landlord].income_rent[i] = rent
               /\ c.post.house[new_house].my_occupier = tenant
               /\ c.post.hh[tenant].my_house = new_house
               /\ ~Listed(c.post, new_house)
               /\ old_house # 0 =>
                      /\ c.post.house[old_house].my_occupier = 0
                      /\ c.post.house[old_house].for_rent
                      /\ ~c.post.house[old_house].for_sale

\* a tenant moves from one house of a landlord to another that was listed at
\* a rent different from the rent recorded for it so far
C17_Witness ==
    \E c \in CallsOf("settle") :
        /\ CommittedTenancy(c)
        /\ c.pre.hh[c.who].my_house # 0
        /\ LET new_house == c.pre.hh[c.who].made_offer_on
               landlord == c.pre.house[new_house].my_owner
           IN /\ landlord # 0
              /\ c.pre.hh[c.who].my_rent # c.pre.house[new_house].rent_price
              /\ c.pre.hh[landlord].income_rent[
                     IndexOf(c.pre.hh[landlord].my_ownership, new_house)]
                   # c.pre.house[new_house].rent_price

\* the households on the market in the snapshot s
OnMarket(s) == { households[k] : k \in { j \in DOMAIN households :
                                           s.hh[households[j]].on_market } }

\* C18: when a single household is on the market, of the mortgage or the
\* rent kind, and it places an offer on a vacant listed house, owned or not,
\* trade_houses ends without error with the household occupying the house
\* (and owning it, after a sale), the house neither for sale nor for rent and
\* with no offerer, and the household off the market with no pending offer.
C18_SingleBidderSettles ==
    \A t \in CallsOf("trade_houses") :
        \A c \in CallsOf("make_offer") :
            ( /\ PlacesOffer(c)
              /\ OnMarket(t.pre) = {c.who}
              /\ t.pre.hh[c.who].on_market_type \in {"mortgage", "rent"}
              /\ t.pre.house[c.post.hh[c.who].made_offer_on].my_occupier = 0 )
            => LET b == c.who
                   h == c.post.hh[b].made_offer_on
               IN /\ ~t.raised
                  /\ t.post.house[h].my_occupier = b
                  /\ t.pre.hh[b].on_market_type = "mortgage" =>
                         t.post.house[h].my_owner = b
                  /\ ~t.post.house[h].for_sale
                  /\ ~t.post.house[h].for_rent
                  /\ t.post.house[h].offered_to = 0
                  /\ ~t.post.hh[b].on_market
                  /\ t.post.hh[b].on_market_type = "none"
                  /\ t.post.hh[b].made_offer_on = 0

\* the budget and the deposit of a purchaser a in the snapshot s, and whether
\* its upper bound is zero or less
BudgetOf(s, a) ==
    MortgageFor((s.hh[a].income * affordability) \div (ticks_per_year * 100))

DepositOf(s, a) ==
    LET x == s.hh[a]
        i == IndexOf(x.my_ownership, x.my_house)
    IN IF /\ x.on_market_type = "mortgage"
          /\ x.my_house # 0 /\ i # 0
          /\ s.house[x.my_house].for_sale
       THEN x.capital + (s.house[x.my_house].sale_price - x.mortgage[i])
       ELSE x.capital

\* the calls of the log that were reached: no call before them raised
Reached == { calls[k] : k \in { j \in DOMAIN calls :
                                   \A i \in 1..(j - 1) : ~calls[i].raised } }

NothingToSpend(c) ==
    /\ c.op = "make_offer"
    /\ c \in Reached
    /\ c.pre.hh[c.who].on_market_type \in {"mortgage", "buy-to-let"}
    /\ upper_num(BudgetOf(c.pre, c.who), DepositOf(c.pre, c.who)) <= 0

\* C19: a bidder of the mortgage or the buy-to-let kind whose upper bound is
\* zero or less comes out of the matching without error, off the market
\* (on_market? false, on_market_type None) and with no offer placed; the
\* residence of a bidder of the mortgage kind is then not listed.
C19_NothingToSpendLeavesMarket ==
    \A c \in CallsOf("make_offer") :
        NothingToSpend(c) =>
            LET x == c.pre.hh[c.who] IN
            /\ ~c.raised
            /\ ~c.post.hh[c.who].on_market
            /\ c.post.hh[c.who].on_market_type = "none"
            /\ c.post.hh[c.who].made_offer_on = 0
            /\ (x.on_market_type = "mortgage" /\ x.my_house # 0) =>
                   ~Listed(c.post, x.my_house)

\* the upper bound of the bidder of the call c, as a numerator and a
\* denominator
UpperNum(c) ==
    IF c.pre.hh[c.who].on_market_type = "rent"
    THEN (c.pre.hh[c.who].income * affordability) \div (ticks_per_year * 100)
    ELSE upper_num(BudgetOf(c.pre, c.who), DepositOf(c.pre, c.who))

UpperDen(c) == IF c.pre.hh[c.who].on_market_type = "rent" THEN 1 ELSE upper_den

\* the listings the bidder of the call c can choose from when it is called:
\* the houses listed on its market that hold no offer, are not its residence
\* nor (for a purchaser) one of its houses, and whose asked price p has
\* 0.7 * upperbound <= p <= upperbound
InClosedBand(c) ==
    LET x == c.pre.hh[c.who]
        m == x.on_market_type
    IN { houses[k] : k \in { j \in DOMAIN houses :
           LET h == houses[j]
               p == AskedPrice(c.pre, h, m)
           IN /\ IF m = "rent" THEN c.pre.house[h].for_rent
                               ELSE c.pre.house[h].for_sale
              /\ c.pre.house[h].offered_to = 0
              /\ h # x.my_house
              /\ m # "rent" => ~InSeq(x.my_ownership, h)
              /\ p * UpperDen(c) <= UpperNum(c)
              /\ p * UpperDen(c) * 10 >= UpperNum(c) * 7 } }

Bids(c) ==
    /\ c.op = "make_offer" /\ c \in Reached /\ ~c.raised
    /\ c.pre.hh[c.who].on_market_type \in {"mortgage", "buy-to-let", "rent"}
    /\ UpperNum(c) > 0

\* C20: every offer is placed on a listing that held no offer and whose price
\* lies in the closed band from 0.7 times the bidder's upper bound to the
\* upper bound; and every such listing, one priced exactly at the lower end
\* included, is a candidate: a bidder that has one places an offer.
C20_OffersInClosedBand ==
    \A c \in CallsOf("make_offer") :
        Bids(c) =>
            /\ PlacesOffer(c) => c.post.hh[c.who].made_offer_on \in InClosedBand(c)
            /\ InClosedBand(c) # {} => PlacesOffer(c)

\* the households of the model, and those that the tests of lines 552-566
\* find poor in the snapshot s
Households == { households[k] : k \in DOMAIN households }

PoorIn(s) ==
    { a \in Households :
        s.hh[a].my_house # 0 /\ (is_poor_mortgage(s, a) \/ is_poor_rent(s, a)) }

EvictedInPhase == { c.who : c \in { d \in CallsOf("evict") : ~d.raised } }

\* C21: in manage_market_participation a household that is evicted ends the
\* phase on the rent market, and a household of a poor cohort (evicted or
\* forced to sell) is not admitted to a market as a rich household: if it
\* is on a market after the phase, it is on the rent market, by its eviction.
C21_PoorNeverAdmittedAsRich ==
    \A p \in CallsOf("manage_market_participation") :
        ~p.raised =>
            /\ \A a \in EvictedInPhase :
                  p.post.hh[a].on_market /\ p.post.hh[a].on_market_type = "rent"
            /\ \A a \in PoorIn(p.pre) \cup { c.who : c \in CallsOf("force_sell") } :
                  p.post.hh[a].on_market =>
                      a \in EvictedInPhase /\ p.post.hh[a].on_market_type = "rent"

\* a phase that evicts a household and forces to sell a landlord that passes
\* the test of rich_mortgage after the sale and has the propensity of an
\* investor
C21_Witness ==
    \E p \in CallsOf("manage_market_participation") :
        /\ ~p.raised
        /\ EvictedInPhase # {}
        /\ \E c \in CallsOf("force_sell") :
              /\ c.who \notin EvictedInPhase
              /\ is_rich_mortgage(p.post, c.who)
              /\ p.post.hh[c.who].propensity >= 100 - investors

\* the houses constructed in the current tick: construct_houses gives a new
\* house the end_of_life ticks + LongLife
BuiltThisTick ==
    { houses[k] : k \in { j \in DOMAIN houses :
                            house[houses[j]].end_of_life = ticks + LongLife } }

\* C22: the phases of a tick run in the order classify, match, resolve,
\* settle, demolish/construct, decay, update: as long as trade_houses (the
\* matching and the settlement of the tick) has not run, no house has been
\* constructed in the tick.
C22_NoHouseBuiltBeforeSettlement ==
    (ticks >= 1 /\ pc \in {"manage_population_dynamics",
                           "manage_market_participation",
                           "construct_houses", "trade_houses"})
        => BuiltThisTick = {}

\* the price that the tenure kind of house h makes authoritative, and its
\* rate of decay in percent
AuthoritativePrice(s, h) ==
    IF s.house[h].my_type = "rent" THEN s.house[h].rent_price
    ELSE s.house[h].sale_price

DropRate(s, h) ==
    IF s.house[h].my_type = "rent" THEN rent_drop_rate ELSE price_drop_rate

\* C23: decay_prices multiplies by (1 - dropRate) the authoritative price of
\* every house that is listed, for sale or for rent, whatever its tenure
\* kind (amounts are whole numbers, the product is rounded down).
C23_ListedPriceDecays ==
    \A d \in CallsOf("decay_prices") :
        \A k \in DOMAIN houses :
            Listed(d.pre, houses[k]) =>
                AuthoritativePrice(d.post, houses[k]) =
                    (AuthoritativePrice(d.pre, houses[k])
                        * (100 - DropRate(d.pre, houses[k]))) \div 100

\* C24: update_owners turns every mortgage balance of every household into
\* max(balance - repayment, 0), and a balance that is 0 afterwards has a
\* repayment of 0.
C24_BalanceClampsToZero ==
    \A u \in CallsOf("update_owners") :
        ~u.raised =>
            \A a \in Households : \A i \in DOMAIN u.pre.hh[a].mortgage :
                /\ i \in DOMAIN u.post.hh[a].mortgage
                /\ u.post.hh[a].mortgage[i] =
                       Max(u.pre.hh[a].mortgage[i] - u.pre.hh[a].repayment[i], 0)
                /\ u.post.hh[a].mortgage[i] = 0 => u.post.hh[a].repayment[i] = 0

C24_Witness ==
    \E u \in CallsOf("update_owners") :
        /\ ~u.raised
        /\ u.now >= 2
        /\ \E a \in Households : \E i \in DOMAIN u.pre.hh[a].mortgage :
              /\ u.pre.hh[a].repayment[i] > 0
              /\ u.pre.hh[a].mortgage[i] > u.pre.hh[a].repayment[i]
        /\ \E a \in Households : \E i \in DOMAIN u.pre.hh[a].mortgage :
              /\ u.pre.hh[a].mortgage[i] > 0
              /\ u.pre.hh[a].mortgage[i] <= u.pre.hh[a].repayment[i]
              /\ u.post.hh[a].repayment[i] = 0
        /\ \E a \in Households : \E i \in DOMAIN u.pre.hh[a].mortgage :
              /\ u.pre.hh[a].mortgage[i] = 0
              /\ u.pre.hh[a].rate_duration[i] = 0

\* the houses, households and realtors of the world w
Core(w) ==
    [ house |-> w.house, hh |-> w.hh, houses |-> w.houses,
      households |-> w.households, realtor |-> w.realtor, err |-> w.err ]

\* C25: demolish_houses does not read the monitors: from the state in which it
\* is called and from the state that differs from it only in the monitors
\* (here, the monitors as the constructor leaves them) it produces the same
\* houses, households and realtors.
C25_MonitorsNeverReadBack ==
    pc = "demolish_houses" =>
        Core(demolish_houses([World EXCEPT !.monitors = NewMonitors]))
            = Core(demolish_houses(World))

\* C26: when a phase of step() has stopped with an error, every house and
\* every household is as it was when that call of step() began.
C26_FailedTickCommitsNothing ==
    (pc = "crashed" /\ calls # <<>> /\ calls[1].op = "step") =>
        Snap(World) = calls[1].pre

\* C27: the cohorts of manage_market_participation are those of the state at
\* its start: every poor owner that has more than one house and none of them
\* listed when the phase starts is forced to sell in the phase.
C27_ClassifiedOnOneSnapshot ==
    \A p \in CallsOf("manage_market_participation") :
        ~p.raised =>
            \A a \in Households :
                ( /\ p.pre.hh[a].my_house # 0
                  /\ is_poor_mortgage(p.pre, a)
                  /\ is_poor_mortgage_stay(p.pre, a) )
                    => \E c \in CallsOf("force_sell") : c.who = a

\* the offers made by the calls of make_offer: bidder and house
NewOffers ==
    { c \in Reached :
        /\ c.op = "make_offer"
        /\ ~c.raised
        /\ c.post.hh[c.who].made_offer_on # 0
        /\ c.post.hh[c.who].made_offer_on # c.pre.hh[c.who].made_offer_on }

\* C28: every offer is on a house of the tenure kind of the bidder's market
\* (mortgage for a mortgage or buy-to-let bidder, rent for a rent bidder), and
\* never on the bidder's residence or on a house of its portfolio.
C28_OfferMatchesKindAndOwnership ==
    \A c \in NewOffers :
        LET a == c.who
            h == c.post.hh[a].made_offer_on
        IN /\ c.pre.hh[a].on_market_type \in {"mortgage", "buy-to-let"}
                 => c.pre.house[h].my_type = "mortgage"
           /\ c.pre.hh[a].on_market_type = "rent" => c.pre.house[h].my_type = "rent"
           /\ h # c.pre.hh[a].my_house
           /\ ~InSeq(c.pre.hh[a].my_ownership, h)

\* the settlements that committed the purchase of a bidder on the mortgage
\* market
CommittedPurchase(c) ==
    Committed(c) /\ c.pre.hh[c.who].on_market_type = "mortgage"

\* C29: after a committed purchase of a bidder on the mortgage market the
\* house has the buyer as owner and occupier, is of kind mortgage and is not
\* listed; the buyer lives in it, owns exactly it and is off the market; a
\* rental the buyer lived in before has no occupier and is listed for rent.
C29_PurchaseSettled ==
    \A c \in CallsOf("settle") :
        CommittedPurchase(c) =>
            LET b == c.who
                h == SoldHouse(c)
                old == c.pre.hh[b].my_house
            IN /\ c.post.house[h].my_owner = b
               /\ c.post.house[h].my_occupier = b
               /\ c.post.house[h].my_type = "mortgage"
               /\ ~Listed(c.post, h)
               /\ c.post.hh[b].my_house = h
               /\ c.post.hh[b].my_ownership = <<h>>
               /\ ~c.post.hh[b].on_market
               /\ (old # 0 /\ c.pre.hh[b].my_type = "rent") =>
                     /\ c.post.house[old].my_occupier = 0
                     /\ c.post.house[old].for_rent
                     /\ ~c.post.house[old].for_sale

C29_Witness ==
    \E c \in CallsOf("settle") :
        /\ CommittedPurchase(c)
        /\ c.pre.hh[c.who].my_house # 0
        /\ c.pre.hh[c.who].my_type = "rent"
        /\ SellerOf(c) # 0

\* in the snapshot s every house has at most one pending offerer and every
\* household at most one residence (a household has one made_offer_on, so at
\* most one pending offer)
OneOfEach(s) ==
    /\ \A h \in HouseIds :
          Cardinality({ a \in Households : s.hh[a].made_offer_on = h }) <= 1
    /\ \A a \in Households :
          Cardinality({ h \in HouseIds : s.house[h].my_occupier = a }) <= 1

\* the calls follow_chain(hh, hh) made for a bidder hh
ChainCalls ==
    { c \in CallsOf("follow_chain") \cup CallsOf("settle") :
        c \in Reached /\ c.who = c.first /\ c.pre.hh[c.who].made_offer_on # 0 }

\* C30: in a state with at most one pending offerer for a house and one
\* residence for a household, follow_chain(hh, hh) ends and returns True or
\* False for every bidder hh.
C30_FollowChainTerminates ==
    \A c \in ChainCalls : OneOfEach(c.pre) => c.result \in {"True", "False"}

\* the household that follow_chain visits after the bidder a in the snapshot
\* s: the owner of the house a bids for
NextSeller(s, a) == s.house[s.hh[a].made_offer_on].my_owner

\* a rotation of three purchases: the recursion visits three households and
\* comes back to the first
C30_Witness ==
    \E c \in ChainCalls :
        LET a == c.who
            b == NextSeller(c.pre, a)
        IN /\ OneOfEach(c.pre)
           /\ c.result = "True"
           /\ c.pre.hh[a].on_market /\ c.pre.hh[a].on_market_type = "mortgage"
           /\ b \notin {0, a}
           /\ Len(c.pre.hh[b].my_ownership) = 1
           /\ c.pre.hh[b].on_market /\ c.pre.hh[b].on_market_type = "mortgage"
           /\ c.pre.hh[b].made_offer_on # 0
           /\ NextSeller(c.pre, b) \notin {0, a, b}
           /\ LET d == NextSeller(c.pre, b)
              IN /\ Len(c.pre.hh[d].my_ownership) = 1
                 /\ c.pre.hh[d].on_market /\ c.pre.hh[d].on_market_type = "mortgage"
                 /\ c.pre.hh[d].made_offer_on # 0
                 /\ NextSeller(c.pre, d) = a

---------------------------------------------------------------------------
\* C31: after manage_outdated_records has run in a tick, the record log of
\* the realtor holds no entry whose date is older than ticks - realtor_memory,
\* however many outdated entries there were and wherever they stood in the
\* log (several adjacent ones included).
C31_NoOutdatedRecordLeft ==
    pc = "remove_offers" =>
        \A i \in 1..Len(realtor.records) :
            ~ (realtor.records[i].date < ticks - realtor_memory)

\* C32: in update_owners every per-house record whose remaining fixed-rate
\* term and remaining mortgage term are not None has each of them decreased
\* by one, in every tick; the fixed-rate term of a record whose term was
\* over is drawn anew before it is counted down.
C32_TermsCountDown ==
    \A u \in CallsOf("update_owners") :
        ~u.raised =>
            \A a \in Households : \A i \in DOMAIN u.pre.hh[a].my_ownership :
                LET x == u.pre.hh[a]
                    y == u.post.hh[a]
                IN (x.rate_duration[i] # NoneT /\ x.mortgage_duration[i] # NoneT) =>
                       /\ y.mortgage_duration[i] = x.mortgage_duration[i] - 1
                       /\ x.rate_duration[i] > 0 =>
                              y.rate_duration[i] = x.rate_duration[i] - 1

\* the record i of the household a is due for a rate reset in update_owners:
\* its fixed-rate term is over and it still has a repayment once the
\* repayment of the tick is made
ResetDue(s, a, i) ==
    /\ s.hh[a].rate_duration[i] = 0
    /\ s.hh[a].repayment[i] > 0
    /\ s.hh[a].mortgage[i] - s.hh[a].repayment[i] > 0

\* C33: when a record's fixed-rate term is zero, its repayment is positive
\* and the prevailing per-tick rate differs from its locked rate,
\* update_owners completes without error, sets the repayment of that record
\* to the annuity repayment of its initial mortgage amount at the prevailing
\* rate, locks the prevailing rate and draws a new fixed-rate term; a record
\* whose fixed-rate term is not zero keeps its rate and its repayment.
C33_RateReset ==
    \A u \in CallsOf("update_owners") :
        \A a \in Households : \A i \in DOMAIN u.pre.hh[a].my_ownership :
            LET x == u.pre.hh[a]
                y == u.post.hh[a]
            IN /\ (ResetDue(u.pre, a, i) /\ x.rate[i] # interest_per_tick) =>
                      /\ ~u.raised
                      /\ y.repayment[i] = RepaymentFor(x.mortgage_initial[i])
                      /\ y.rate[i] = interest_per_tick
                      /\ y.rate_duration[i] + 1 \in
                             IF i = 1
                             THEN min_rate_duration_M..max_rate_duration_M
                             ELSE min_rate_duration_BTL..max_rate_duration_BTL
               /\ (~u.raised /\ x.rate_duration[i] # 0) =>
                      /\ y.rate[i] = x.rate[i]
                      /\ y.repayment[i] \in {x.repayment[i], 0}

\* the households of the model that have no residence
Homeless(hs, s) == { a \in HhIds : InSeq(hs, a) /\ s[a].my_house = 0 }

\* manage_population_dynamics counts one more tick for every household that
\* is without a residence, and removes it when its counter then exceeds
\* max_homeless_period; a household that lost its residence in this phase
\* (the tenant of an exiting landlord) or entered in it, and stays, has
\* counted its first tick
CountsHomeless ==
    (pc = "manage_population_dynamics" /\ pc' = "manage_market_participation") =>
        \A a \in HhIds :
            LET was_homeless == InSeq(households, a) /\ hh[a].my_house = 0
            IN /\ was_homeless =>
                      /\ hh'[a].homeless = hh[a].homeless + 1
                      /\ InSeq(households', a) <=>
                             hh[a].homeless + 1 <= max_homeless_period
               /\ (a \in Homeless(households', hh') /\ ~was_homeless) =>
                      /\ hh'[a].homeless = 1
                      /\ hh'[a].homeless <= max_homeless_period

\* C34: a household without a residence has its homelessness counter
\* increased by one each tick and is removed from the model in the tick the
\* counter exceeds max_homeless_period; at the end of every tick every
\* remaining homeless household has a counter of at most max_homeless_period,
\* and an eviction resets the counter of the evicted household to 0.
C34_Discouragement ==
    /\ [][CountsHomeless]_vars
    /\ [](EndOfTick =>
            \A a \in Homeless(households, hh) :
                hh[a].homeless <= max_homeless_period)
    /\ [](\A c \in CallsOf("evict") :
            ~c.raised => c.post.hh[c.who].homeless = 0)

\* a household has just been removed for discouragement, another one that is
\* homeless stays, and the phase evicted a household
C34_Witness ==
    /\ pc = "manage_market_participation"
    /\ \E a \in HhIds :
          /\ ~InSeq(households, a)
          /\ hh[a].homeless > max_homeless_period
    /\ \E a \in Homeless(households, hh) : hh[a].homeless = 1
    /\ \E c \in CallsOf("evict") : ~c.raised

\* the tick in which the house h was put on the market it is listed on in the
\* snapshot s; 0 for a listing that comes from initialise
ListedOn(s, h) ==
    IF s.house[h].for_sale THEN s.house[h].date_for_sale
    ELSE s.house[h].date_for_rent

\* C35: every listing made by put_on_market (after an eviction, a forced
\* sale, a construction, a tenant or buyer vacating the house during
\* settlement, or a cascade during demolition) has its asking price or rent
\* set by the realtor valuation (evaluate) before a household places an offer
\* on the house.
C35_ListingValuedBeforeOffer ==
    \A c \in NewOffers :
        LET h == c.post.hh[c.who].made_offer_on
        IN (Listed(c.pre, h) /\ ListedOn(c.pre, h) > 0)
               => <<h, c.pre.house[h].for_sale, ListedOn(c.pre, h)>> \in c.valued

\* the house h of the snapshot s is flagged for demolition at the tick t: it
\* is past its end of life, or listed below min_price_percent of the median
\* listed price (rent) of the tick for its tenure kind
Flagged(s, h, t) ==
    \/ /\ s.house[h].my_type \in {"mortgage", "rent"}
       /\ t > s.house[h].end_of_life
    \/ /\ s.house[h].my_type = "mortgage"
       /\ s.house[h].for_sale
       /\ s.house[h].sale_price * 100 < monitors.medianPriceForSale * min_price_percent
    \/ /\ s.house[h].my_type = "rent"
       /\ s.house[h].for_rent
       /\ s.house[h].rent_price * 100 < monitors.medianPriceForRent * min_price_percent

\* the houses that have been removed from the model
Removed == { h \in 1..nhouse : ~InSeq(houses, h) }

\* C36: every house that is past its end-of-life tick, or listed below
\* min_price_percent of the tick's median listed price or rent for its tenure
\* kind, is removed by demolish_houses in that tick, and afterwards no
\* household (my_house, my_ownership, made_offer_on) and no realtor (records,
\* locality_houses) refers to a removed house.
C36_DemolitionComplete ==
    \A d \in CallsOf("demolish_houses") :
        /\ ~d.raised
        /\ \A h \in 1..nhouse : Flagged(d.pre, h, d.now) => h \in Removed
        /\ \A h \in Removed :
              /\ \A a \in Households :
                    /\ hh[a].my_house # h
                    /\ ~InSeq(hh[a].my_ownership, h)
                    /\ hh[a].made_offer_on # h
              /\ \A i \in DOMAIN realtor.records : realtor.records[i].house # h
              /\ ~InSeq(realtor.locality_houses, h)

\* the number of positions of the list s that hold x
Count(s, x) == Cardinality({ i \in DOMAIN s : s[i] = x })

\* C37: at the end of every phase, for every house h and every household x
\* of the model, h.my_owner is x exactly when h is in x.my_ownership, and no
\* house is in two portfolios or twice in one.
C37_OwnershipConsistent ==
    pc # "crashed" =>
        \A h \in { houses[k] : k \in DOMAIN houses } :
            /\ \A x \in Households :
                  (house[h].my_owner = x) <=> InSeq(hh[x].my_ownership, h)
            /\ \A x \in Households : Count(hh[x].my_ownership, h) <= 1
            /\ \A x, y \in Households :
                  (InSeq(hh[x].my_ownership, h) /\ InSeq(hh[y].my_ownership, h))
                      => x = y

\* a committed purchase in which the house passed from one household of the
\* model to another
C37_Witness ==
    /\ pc # "crashed"
    /\ \E c \in CallsOf("settle") :
          LET h == c.pre.hh[c.who].made_offer_on IN
          /\ ~c.raised
          /\ h # 0
          /\ c.pre.house[h].my_owner # 0
          /\ c.post.house[h].my_owner = c.who
          /\ c.pre.house[h].my_owner # c.who
          /\ InSeq(hh[c.who].my_ownership, h)

\* C38: in every reachable state every house of the model that is listed for
\* rent has an owner, and the settlement of an offer of a bidder on the rent
\* market, which looks up the landlord of the house, finds one.
C38_RentListingHasOwner ==
    /\ pc # "crashed" =>
           \A h \in { houses[k] : k \in DOMAIN houses } :
               house[h].for_rent => house[h].my_owner # 0
    /\ \A c \in Reached :
           (/\ c.op = "settle"
            /\ c.pre.hh[c.who].on_market_type = "rent"
            /\ c.pre.hh[c.who].made_offer_on # 0)
               => /\ c.pre.house[c.pre.hh[c.who].made_offer_on].my_owner # 0
                  /\ c.result # "AttributeError"

\* a tenancy has been settled with the landlord of the listing, and a house
\* of the model is listed for rent
C38_Witness ==
    /\ pc # "crashed"
    /\ \E h \in { houses[k] : k \in DOMAIN houses } :
          house[h].for_rent /\ house[h].my_owner # 0
    /\ \E c \in Reached :
          /\ c.op = "settle"
          /\ ~c.raised
          /\ c.pre.hh[c.who].on_market_type = "rent"
          /\ c.pre.hh[c.who].made_offer_on # 0
          /\ c.post.hh[c.who].my_house = c.pre.hh[c.who].made_offer_on

\* the settle call c is a committed purchase of a bidder on the mortgage or
\* on the buy-to-let market
Purchase(c) ==
    /\ Committed(c)
    /\ c.pre.hh[c.who].on_market_type \in {"mortgage", "buy-to-let"}
    /\ c.pre.hh[c.who].made_offer_on # 0
    /\ c.post.house[c.pre.hh[c.who].made_offer_on].my_owner = c.who
    /\ c.post.hh[c.who].made_offer_on = 0

\* the mortgage that the purchase c created for the buyer
MortgageCreated(c) ==
    c.post.hh[c.who].mortgage[Len(c.post.hh[c.who].mortgage)]

NoRentFor(s, h) ==
    LET l == s.house[h].my_owner
        i == IndexOf(s.hh[l].my_ownership, h)
    IN (l # 0 /\ i # 0 /\ i <= Len(s.hh[l].income_rent))
           => s.hh[l].income_rent[i] = 0

\* the settle call c moved a tenant out of a rented house into another one
TenantMoved(c) ==
    LET old == c.pre.hh[c.who].my_house IN
    /\ Committed(c)
    /\ old # 0
    /\ c.pre.house[old].my_type = "rent"
    /\ c.pre.house[old].my_owner # 0
    /\ c.pre.house[old].my_owner # c.who
    /\ c.post.hh[c.who].my_house # old
    /\ c.post.house[old].my_occupier = 0

\* C40: at the end of every tick an income_rent entry of an owner is non-zero
\* only if the house is occupied by a tenant, and when a tenant leaves a house
\* by renting or buying another one the income_rent of its landlord for the
\* vacated house is 0.
C40_RentIncomeNotStale ==
    /\ EndOfTick =>
           \A x \in Households :
               \A i \in 1..Len(hh[x].my_ownership) :
                   (i <= Len(hh[x].income_rent) /\ hh[x].income_rent[i] # 0)
                       => LET h == hh[x].my_ownership[i] IN
                          /\ house[h].my_occupier # 0
                          /\ house[h].my_occupier # x
    /\ \A c \in Reached :
           TenantMoved(c) => NoRentFor(c.post, c.pre.hh[c.who].my_house)

============================================================================
